---------------------------- MODULE Spec2Model ----------------------------
(***************************************************************************)
(* Two-pass doc generation of tjsdoc-docs-babylon (DocGenerator).          *)
(*                                                                         *)
(* A module AST is walked once (first pass): every visited node is either  *)
(* deferred to `_exportNodesPass` or pushed through `_push`, which creates *)
(* doc objects and inserts them into the DocDB.  After the walk            *)
(* `_processExports` reconciles every deferred export node against the     *)
(* DocDB (second pass).                                                    *)
(*                                                                         *)
(* Names are sequences of one-character strings, so that the conversions   *)
(* the generator performs on them (lower-casing the first character,       *)
(* wrapping in braces, building a longname) are computed, not assumed.     *)
(***************************************************************************)
EXTENDS Integers, Sequences, FiniteSets, TLC

VARIABLES
    pc,               \* where resetAndTraverse stands: "idle", "traverse", "done", "thrown"
    source,           \* the module as the parser produced it (never written)
    ast,              \* the AST object handed to resetAndTraverse, changed in place
    _ast,             \* whether the statics of DocGenerator (_ast, _eventbus, ...) are set
    filePath,         \* DocGenerator._pathResolver.filePath
    handleError,      \* DocGenerator._handleError
    moduleID,         \* DocGenerator._moduleID
    docDB,            \* the target DocDB: doc objects in insertion order
    nextID,           \* the global doc ID counter (tjsdoc:data:docdb:current:id)
    exportNodesPass,  \* DocGenerator._exportNodesPass: deferred export nodes
    walk,             \* the nodes the AST walker has still to enter, in pre-order
    already,          \* the nodes carrying the s_ALREADY marker
    parent,           \* the nodes whose `parent` back-reference has been defined
    exportIdx,        \* export nodes the loop of _processExports has gone through
    invalid,          \* what tjsdoc:system:invalid:code:add was handed, in order
    call,             \* the place in `handed` of the latest call that runs or ran
    suspended,        \* the calls that wait for a nested call to return, innermost first
    _sequence,        \* TestDocGenerator._sequence (0 stands for undefined as well)
    _tjsdocTestName,  \* the test calls that carry _tjsdocTestId / _tjsdocTestName: node -> id
    handed,           \* history: what the generators were handed, call by call
    log               \* history: what each step did, in order

vars == <<pc, source, ast, _ast, filePath, handleError, moduleID, docDB, nextID,
          exportNodesPass, walk, already, parent, exportIdx, invalid, call, suspended,
          _sequence, _tjsdocTestName, handed, log>>

---------------------------------------------------------------------------
(* Bounds of the model.                                                    *)

\* Longest program body (number of top-level statements) that is explored.
MaxBody == 3

\* Most files of one project that are generated one after the other.
MaxFiles == 2
MaxNesting == 1
MaxCalls == 3

---------------------------------------------------------------------------
(* Names and strings.                                                      *)

\* JavaScript `undefined` / `null` where a string is expected, and ''.
undefined == <<"#undefined">>
null == <<"#null">>
EmptyString == <<>>

\* The identifiers the explored modules use.
Foo == <<"F", "o", "o">>
foo == <<"f", "o", "o">>

\* The file paths the path resolver hands out.
FilePaths == {<<"a.js">>}

\* More identifiers: a method of Foo, a class expression's variable and its method.
bar == <<"b", "a", "r">>
Bar == <<"B", "a", "r">>
baz == <<"b", "a", "z">>

\* The id of a declarator that is the object pattern `{}`: it has no properties.
EmptyObjectPattern == <<"{", "}">>

\* JavaScript truthiness of a string-or-undefined value.
Truthy(s) == s \notin {undefined, null, EmptyString}

\* String.prototype.toLowerCase on one character.
toLowerCase(c) ==
    CASE c = "F" -> "f"
      [] c = "B" -> "b"
      [] OTHER -> c

\* A replacement that keeps the first character.  C8 is tested against it.
LowerFirst_keep(s) == s

\* targetClassName.replace(/^./, (c) => c.toLowerCase())
LowerFirst(s) ==
    IF s = EmptyString THEN EmptyString ELSE <<toLowerCase(Head(s))>> \o Tail(s)

\* `{${name}}`
Braces(name) == <<"{">> \o name \o <<"}">>

\* `${filePath}~${className}`
Longname(path, className) == path \o <<"~">> \o className

---------------------------------------------------------------------------
(* Comments and tags.  A comment is what the comment parser makes of it:   *)
(* whether it is a doc comment, and its tags in source order (the          *)
(* description is the value of its @desc tag).                             *)

Tag(tagName, tagValue) == [tagName |-> tagName, tagValue |-> tagValue]
Comment(isDoc, tags) == [isDoc |-> isDoc, tags |-> tags]

PlainComment == Comment(TRUE, <<Tag("@desc", <<"d">>)>>)
IgnoreComment == Comment(TRUE, <<Tag("@desc", <<"i">>), Tag("@ignore", EmptyString)>>)

\* { type: 'CommentBlock', value: '* @_undocument' }
UndocumentComment == Comment(TRUE, <<Tag("@_undocument", EmptyString)>>)
TypedefComment == Comment(TRUE, <<Tag("@typedef", <<"T">>)>>)
TypedefExternalComment == Comment(TRUE, <<Tag("@typedef", <<"T">>), Tag("@external", <<"E">>)>>)
ExternalTypedefComment == Comment(TRUE, <<Tag("@external", <<"E">>), Tag("@typedef", <<"T">>)>>)

\* tjsdoc:system:parser:comment:parse
parseComment(comment) == comment.tags

\* tjsdoc:system:parser:comment:node:value:get (undefined for a non doc comment)
isDocComment(comment) == comment.isDoc

HasTag(tags, tagName) == \E i \in 1..Len(tags) : tags[i].tagName = tagName

---------------------------------------------------------------------------
(* AST nodes.  Every node is a record of its type, its name (id.name,      *)
(* exported.name or name, as the type has it), its child nodes in the      *)
(* order the walker enters them, and its leading and trailing comments.  A *)
(* node is identified by its path from the File node, as the code          *)
(* identifies it by object identity.                                       *)

Node(type, name, children, comments) ==
    [type |-> type, name |-> name, children |-> children, leadingComments |-> comments,
     trailingComments |-> <<>>]

\* The node with the comments that follow it attached.
Trailing(node, comments) == [node EXCEPT !.trailingComments = comments]

NoNode == Node("#none", undefined, <<>>, <<>>)

Identifier(name) == Node("Identifier", name, <<>>, <<>>)
NumericLiteral == Node("NumericLiteral", undefined, <<>>, <<>>)
NewExpression(className) == Node("NewExpression", undefined, <<Identifier(className)>>, <<>>)
StringLiteral == Node("StringLiteral", undefined, <<>>, <<>>)
\* new <object>['...'](): the property of the callee is a literal and has no name.
NewComputedExpression(object) ==
    Node("NewExpression", undefined,
         <<Node("MemberExpression", undefined, <<Identifier(object), StringLiteral>>, <<>>)>>, <<>>)
VariableDeclarator(name, init) ==
    Node("VariableDeclarator", name, IF init = NoNode THEN <<>> ELSE <<init>>, <<>>)
VariableDeclaration(declarators, comments) ==
    Node("VariableDeclaration", undefined, declarators, comments)
ClassDeclaration(name, comments) ==
    Node("ClassDeclaration", name, <<Node("ClassBody", undefined, <<>>, <<>>)>>, comments)
FunctionDeclaration(name, comments) ==
    Node("FunctionDeclaration", name, <<Node("BlockStatement", undefined, <<>>, <<>>)>>, comments)
ExportSpecifier(name) == Node("ExportSpecifier", name, <<>>, <<>>)
ExportDefaultDeclaration(declaration, comments) ==
    Node("ExportDefaultDeclaration", undefined, <<declaration>>, comments)
ExportNamedDeclaration(declaration, specifiers, comments) ==
    Node("ExportNamedDeclaration", undefined,
         (IF declaration = NoNode THEN <<>> ELSE <<declaration>>) \o specifiers, comments)
ClassMethod(name, comments) == Node("ClassMethod", name, <<>>, comments)
ClassBody(members) == Node("ClassBody", undefined, members, <<>>)
ClassWith(name, members, comments) ==
    Node("ClassDeclaration", name, <<ClassBody(members)>>, comments)
ClassExpression(members) == Node("ClassExpression", undefined, <<ClassBody(members)>>, <<>>)
BlockStatement(body) == Node("BlockStatement", undefined, body, <<>>)
FunctionWith(name, body, comments) ==
    Node("FunctionDeclaration", name, <<BlockStatement(body)>>, comments)
ThisExpression == Node("ThisExpression", undefined, <<>>, <<>>)
MemberExpression(object, property) ==
    Node("MemberExpression", property, <<object, Identifier(property)>>, <<>>)
AssignmentExpression(left, right) == Node("AssignmentExpression", left.name, <<left, right>>, <<>>)
ExpressionStatement(expression, comments) ==
    Node("ExpressionStatement", undefined, <<expression>>, comments)
FunctionExpression(name) == Node("FunctionExpression", name, <<BlockStatement(<<>>)>>, <<>>)
ArrowFunctionExpression(name) ==
    Node("ArrowFunctionExpression", name, <<BlockStatement(<<>>)>>, <<>>)
NamedClassExpression(name, members) ==
    Node("ClassExpression", name, <<ClassBody(members)>>, <<>>)
ClassMethodWith(name, body, comments) ==
    Node("ClassMethod", name, <<BlockStatement(body)>>, comments)
Program(body) == Node("Program", undefined, body, <<>>)
File(body) == Node("File", undefined, <<Program(body)>>, <<>>)

\* Accessors named after the Babylon node properties.
declarationOf(n) ==
    IF Len(n.children) > 0 /\ n.children[1].type # "ExportSpecifier"
    THEN n.children[1] ELSE NoNode
specifiersOf(n) == SelectSeq(n.children, LAMBDA c : c.type = "ExportSpecifier")
declarationsOf(n) == n.children
initOf(declarator) == IF Len(declarator.children) > 0 THEN declarator.children[1] ELSE NoNode
calleeOf(newExpr) == newExpr.children[1]
expressionOf(statement) == statement.children[1]
leftOf(assignment) == assignment.children[1]
rightOf(assignment) == assignment.children[2]
\* callee.name: only an Identifier callee has one.
calleeName(newExpr) ==
    IF calleeOf(newExpr).type = "Identifier" THEN calleeOf(newExpr).name ELSE undefined
programBody(a) == a.children[1].children

\* Whether the node is an export declaration.
IsExportNode(n) == n.type \in {"ExportDefaultDeclaration", "ExportNamedDeclaration"}

\* Paths.
RootPath == <<>>
StmtPath(i) == <<1, i>>
ParentPath(p) == SubSeq(p, 1, Len(p) - 1)
IsPrefix(p, q) == Len(p) <= Len(q) /\ SubSeq(q, 1, Len(p)) = p

RECURSIVE NodeAt(_, _)
NodeAt(n, p) == IF p = <<>> THEN n ELSE NodeAt(n.children[Head(p)], Tail(p))

RECURSIVE ReplaceAt(_, _, _)
ReplaceAt(n, p, m) ==
    IF p = <<>> THEN m
    ELSE [n EXCEPT !.children[Head(p)] = ReplaceAt(n.children[Head(p)], Tail(p), m)]

RECURSIVE Flatten(_)
Flatten(ss) == IF ss = <<>> THEN <<>> ELSE Head(ss) \o Flatten(Tail(ss))

\* typhonjs:ast:walker:traverse: depth-first, pre-order.
RECURSIVE PreOrder(_, _)
PreOrder(n, p) ==
    <<p>> \o Flatten([i \in 1..Len(n.children) |-> PreOrder(n.children[i], p \o <<i>>)])


---------------------------------------------------------------------------
(* ASTUtil: name based lookups in the top-level body of one file, and the  *)
(* upward searches along the `parent` back-references.  `par` is the       *)
(* function from the nodes that have a back-reference to their parent.     *)

\* The first of the positions, 0 when there is none.
FirstIndex(hits) ==
    IF hits = {} THEN 0 ELSE CHOOSE i \in hits : \A j \in hits : i <= j

\* ASTUtil.findClassDeclarationNode: 0 stands for null.
findClassDeclarationNode(a, name) ==
    IF ~Truthy(name) THEN 0
    ELSE FirstIndex({i \in 1..Len(programBody(a)) :
                        /\ programBody(a)[i].type = "ClassDeclaration"
                        /\ programBody(a)[i].name = name})

\* ASTUtil.findClassDeclarationExport: 0 stands for null.
findClassDeclarationExport(a, name) ==
    IF ~Truthy(name) THEN 0
    ELSE FirstIndex({i \in 1..Len(programBody(a)) :
                        /\ IsExportNode(programBody(a)[i])
                        /\ declarationOf(programBody(a)[i]).type = "ClassDeclaration"
                        /\ declarationOf(programBody(a)[i]).name = name})

\* ASTUtil.findVariableDeclarationAndNewExpressionNode: 0 stands for null.
findVariableDeclarationAndNewExpressionNode(a, name) ==
    IF ~Truthy(name) THEN 0
    ELSE FirstIndex({i \in 1..Len(programBody(a)) :
                        /\ programBody(a)[i].type = "VariableDeclaration"
                        /\ initOf(declarationsOf(programBody(a)[i])[1]) # NoNode
                        /\ initOf(declarationsOf(programBody(a)[i])[1]).type = "NewExpression"
                        /\ declarationsOf(programBody(a)[i])[1].name = name})

\* The nodes met by following `parent` from the node at p, nearest first.
RECURSIVE ParentChain(_, _)
ParentChain(par, p) ==
    IF p \in DOMAIN par THEN <<par[p]>> \o ParentChain(par, par[p]) ELSE <<>>

IsExportType(type) == type \in {"ExportDefaultDeclaration", "ExportNamedDeclaration"}

\* ASTUtil.findParentExport over a chain of ancestors.
findParentExport(a, chain) ==
    \E i \in 1..Len(chain) : IsExportType(NodeAt(a, chain[i]).type)

\* An import style that a default export does not set.  C7 is tested against it.
findImportStyle_namedOnly(a, chain, name) ==
    LET exports == SelectSeq(chain, LAMBDA q : IsExportType(NodeAt(a, q).type))
    IN  IF exports = <<>> THEN null
        ELSE IF NodeAt(a, Head(exports)).type = "ExportDefaultDeclaration" THEN null
        ELSE Braces(name)

\* ASTUtil.findImportStyle over a chain of ancestors: the nearest export decides.
findImportStyle(a, chain, name) ==
    LET exports == SelectSeq(chain, LAMBDA q : IsExportType(NodeAt(a, q).type))
    IN  IF exports = <<>> THEN null
        ELSE IF NodeAt(a, Head(exports)).type = "ExportDefaultDeclaration" THEN name
        ELSE Braces(name)

\* ASTUtil.createVariableDeclarationAndNewExpressionNode
createVariableDeclarationAndNewExpressionNode(name, className, sourceNode) ==
    VariableDeclaration(<<VariableDeclarator(name, NewExpression(className))>>,
                        sourceNode.leadingComments)

\* ASTUtil.sanitize
sanitize(n) ==
    [n EXCEPT !.type = "Identifier", !.name = <<"_">>, !.leadingComments = <<>>,
              !.trailingComments = <<>>]

---------------------------------------------------------------------------
(* Doc objects.                                                            *)

\* A counter that hands out the same ID again.  C14 is tested against it.
incrementID_stay(id) == id

\* tjsdoc:data:docdb:current:id:increment:get: the counter after the call.
incrementID(id) == id + 1

\* The value of the first tag of the given name, or null.
FindTagValue(tags, tagName) ==
    IF HasTag(tags, tagName)
    THEN tags[CHOOSE i \in 1..Len(tags) :
                  tags[i].tagName = tagName /\ \A j \in 1..(i - 1) : tags[j].tagName # tagName].tagValue
    ELSE null

\* The longname ModuleVariableDoc._$type obtains for the class of a `new`
\* initialiser: that of a class the file exports directly ("this only works for
\* directly exported nodes and not intermediate exports"), none otherwise.  The
\* explored modules import nothing.
findClassLongname(a, path, className) ==
    IF findClassDeclarationExport(a, className) # 0 THEN Longname(path, className) ELSE null

\* ModuleVariableDoc._$type for a declaration without a @type tag.
variableType(a, path, node) ==
    LET init == initOf(declarationsOf(node)[1])
    IN  IF init.type = "NewExpression"
        THEN LET longname == findClassLongname(a, path, calleeName(init))
             IN  IF longname = null THEN <<"*">> ELSE longname
        ELSE <<"number">>

\* StaticDoc.create(docID, moduleID, ast, node, pathResolver, tags, eventbus):
\* the fields the generator reads or writes later.  `chain` is the parent chain
\* of the node, `at` the place of the node (for a virtual node, of the node it
\* was made for).
createDoc(id, modID, a, path, category, node, at, virtual, chain, tags) ==
    LET name == IF category \in {"ModuleClass", "ModuleFunction", "ClassMethod", "ClassProperty",
                                 "ClassMember", "ModuleAssignment"}
                THEN node.name
                ELSE IF category = "ModuleVariable" THEN declarationsOf(node)[1].name
                ELSE IF category = "VirtualExternal" THEN FindTagValue(tags, "@external")
                ELSE FindTagValue(tags, "@typedef")
    IN  [id          |-> id,
         moduleID    |-> modID,
         category    |-> category,
         name        |-> name,
         filePath    |-> path,
         export      |-> findParentExport(a, chain),
         importStyle |-> findImportStyle(a, chain, name),
         ignore      |-> HasTag(tags, "@ignore"),
         type        |-> IF category = "ModuleVariable" THEN variableType(a, path, node) ELSE null,
         description |-> FindTagValue(tags, "@desc"),
         undocument  |-> HasTag(tags, "@_undocument"),
         node        |-> at,
         virtual     |-> virtual]

\* Whether StaticDoc.create throws: ModuleVariableDoc._$name reads
\* `id.properties[0].key` of an object pattern, which `{}` does not have.
createThrows(category, node) ==
    /\ category = "ModuleVariable"
    /\ declarationsOf(node)[1].name = EmptyObjectPattern

\* ModuleFileDoc.create for the file itself.
createFileDoc(id, path) ==
    [id |-> id, moduleID |-> id, category |-> "ModuleFile", name |-> path, filePath |-> path,
     export |-> FALSE, importStyle |-> null, ignore |-> FALSE, type |-> null,
     description |-> null, undocument |-> FALSE, node |-> RootPath, virtual |-> FALSE]

\* DocDB.find({ name, filePath [, category] }): the positions of the matching
\* doc objects in insertion order; category "*" stands for no category given.
find(db, category, name, path) ==
    SelectSeq([i \in 1..Len(db) |-> i],
              LAMBDA i : /\ db[i].name = name
                         /\ db[i].filePath = path
                         /\ (category = "*" \/ db[i].category = category))


---------------------------------------------------------------------------
(* The generator's working state while one handler runs: the DocDB, the ID *)
(* counter, the s_ALREADY markers, the parent back-references, the history *)
(* and whether the handler has thrown (what follows the throw is skipped). *)

Event(kind, by, doc) == [kind |-> kind, by |-> by, doc |-> doc]

Working(db, id, marks, par, hist) ==
    [docDB |-> db, nextID |-> id, already |-> marks, parent |-> par, log |-> hist,
     fatalError |-> FALSE, eventbus |-> TRUE]

\* Reflect.defineProperty(node, 'parent', { value }): a back-reference, once
\* defined, is neither writable nor configurable.
defineParent(par, p, q) ==
    IF p \in DOMAIN par THEN par
    ELSE [r \in DOMAIN par \cup {p} |-> IF r = p THEN q ELSE par[r]]

\* DocGenerator._insertStaticDoc (no doc filter is supplied).
_insertStaticDoc(g, doc, by) ==
    [g EXCEPT !.docDB = Append(@, doc), !.log = Append(@, Event("insert", by, doc.id))]

\* A depth test that does not look through an export.  C10 is tested against it.
_isTopDepthInBody_strict(a, par, p) == NodeAt(a, par[p]).type = "Program"

\* DocGenerator._isTopDepthInBody
_isTopDepthInBody(a, par, p) ==
    LET q == IF IsExportType(NodeAt(a, par[p]).type) THEN par[p] ELSE p
    IN  NodeAt(a, par[q]).type = "Program"

NoType == [type |-> "#none", node |-> RootPath]

\* DocGenerator._decideModuleVariableType
_decideModuleVariableType(a, par, node, p) ==
    IF ~_isTopDepthInBody(a, par, p) THEN NoType
    ELSE IF initOf(declarationsOf(node)[1]) = NoNode THEN NoType
    ELSE CASE initOf(declarationsOf(node)[1]).type \in {"ArrowFunctionExpression", "FunctionExpression"} ->
                  [type |-> "ModuleFunction", node |-> p \o <<1, 1>>]
           [] initOf(declarationsOf(node)[1]).type = "ClassExpression" ->
                  [type |-> "ModuleClass", node |-> p \o <<1, 1>>]
           [] OTHER -> [type |-> "ModuleVariable", node |-> p]

\* DocGenerator._decideModuleAssignmentType
_decideModuleAssignmentType(a, par, node, p) ==
    IF ~_isTopDepthInBody(a, par, p) THEN NoType
    ELSE CASE rightOf(node).type \in {"ArrowFunctionExpression", "FunctionExpression"} ->
                  [type |-> "ModuleFunction", node |-> p \o <<2>>]
           [] rightOf(node).type = "ClassExpression" ->
                  [type |-> "ModuleClass", node |-> p \o <<2>>]
           [] OTHER -> [type |-> "ModuleAssignment", node |-> p]

\* Whether the statement is an assignment: node.expression.right is set.
hasRight(node) == expressionOf(node).type = "AssignmentExpression"

\* An upward search that looks at the nearest parent only.  C27 is tested
\* against it.
_findUp_nearest(a, par, p, types) == NodeAt(a, p).type \in types

\* DocGenerator._findUp from the expression of the statement at p, whose
\* parent is the statement: whether a node of one of the types is found.
_findUp(a, par, p, types) ==
    \/ NodeAt(a, p).type \in types
    \/ \E i \in 1..Len(ParentChain(par, p)) : NodeAt(a, ParentChain(par, p)[i]).type \in types

\* DocGenerator._decideExpressionStatementType
_decideExpressionStatementType(a, par, node, p) ==
    IF ~hasRight(node) THEN NoType
    ELSE IF /\ leftOf(expressionOf(node)).type = "MemberExpression"
            /\ leftOf(expressionOf(node)).children[1].type = "ThisExpression"
    THEN IF _findUp(a, par, p, {"ClassExpression", "ClassDeclaration"})
         THEN [type |-> "ClassMember", node |-> p \o <<1>>]
         ELSE NoType
    ELSE NoType

\* A scan that goes through the whole list and keeps the last hit.  C23 is
\* tested against it.
FirstVirtualTag_last(tags) ==
    LET hits == SelectSeq(tags, LAMBDA t : t.tagName \in {"@typedef", "@external"})
    IN  IF hits = <<>> THEN "#none" ELSE hits[Len(hits)].tagName

\* The first @typedef or @external tag of the list, "#none" when there is none.
FirstVirtualTag(tags) ==
    LET hits == SelectSeq(tags, LAMBDA t : t.tagName \in {"@typedef", "@external"})
    IN  IF hits = <<>> THEN "#none" ELSE Head(hits).tagName

\* DocGenerator._decideType, for the node types of the explored modules.  A
\* virtual node ({}) has no type.
_decideType(a, par, node, p, tags) ==
    CASE FirstVirtualTag(tags) = "@typedef" -> [type |-> "VirtualTypedef", node |-> p]
      [] FirstVirtualTag(tags) = "@external" -> [type |-> "VirtualExternal", node |-> p]
      [] OTHER ->
           CASE node.type = "ClassDeclaration" ->
                    IF _isTopDepthInBody(a, par, p)
                    THEN [type |-> "ModuleClass", node |-> p] ELSE NoType
             [] node.type = "FunctionDeclaration" ->
                    IF _isTopDepthInBody(a, par, p)
                    THEN [type |-> "ModuleFunction", node |-> p] ELSE NoType
             [] node.type = "VariableDeclaration" -> _decideModuleVariableType(a, par, node, p)
             [] node.type = "ArrowFunctionExpression" ->
                    IF _isTopDepthInBody(a, par, p)
                    THEN [type |-> "ModuleFunction", node |-> p] ELSE NoType
             [] node.type = "AssignmentExpression" -> _decideModuleAssignmentType(a, par, node, p)
             [] node.type = "ExpressionStatement" -> _decideExpressionStatementType(a, par, node, p)
             [] node.type = "ClassMethod" -> [type |-> "ClassMethod", node |-> p]
             [] node.type = "ClassProperty" -> [type |-> "ClassProperty", node |-> p]
             [] OTHER -> NoType

\* DocGenerator._processNode followed by the insertion _traverseComments makes
\* of its result.  `at` is the node (or, for a virtual node, the node it stands
\* next to), `chain` its parent chain, `by` the node the walker entered.
_processDecided(g0, result, a, path, modID, at, virtual, chain, tags, by) ==
    IF result.type = "#none" THEN g0
    ELSE LET inner == result.node # at
             g1 == IF inner
                   THEN [g0 EXCEPT !.parent = defineParent(@, result.node, at),
                                   !.already = @ \cup {result.node}]
                   ELSE g0
             created == IF virtual THEN NoNode ELSE NodeAt(a, result.node)
             doc == createDoc(g1.nextID, modID, a, path, result.type, created,
                              result.node, virtual,
                              IF inner THEN ParentChain(g1.parent, result.node) ELSE chain,
                              tags)
         IN  IF createThrows(result.type, created)
             THEN [g1 EXCEPT !.nextID = incrementID(@), !.fatalError = TRUE]
             ELSE _insertStaticDoc([g1 EXCEPT !.nextID = incrementID(@)], doc, by)

\* DocGenerator._processNode: the type is decided (the classifier of an
\* assignment statement defines the parent of its expression on the way),
\* then the doc is made as above.
_processNode(g, a, path, modID, at, virtual, chain, tags, by) ==
    LET node == IF virtual THEN NoNode ELSE NodeAt(a, at)
    IN  _processDecided(
            IF /\ node.type = "ExpressionStatement" /\ FirstVirtualTag(tags) = "#none"
               /\ hasRight(node)
            THEN [g EXCEPT !.parent = defineParent(@, at \o <<1>>, at)]
            ELSE g,
            _decideType(a, g.parent, node, at, tags),
            a, path, modID, at, virtual, chain, tags, by)

\* A test that takes every comment for the last.  C24 is tested against it.
isLastComment_any(comments, i) == TRUE

\* `comment === lastComment`
isLastComment(comments, i) == i = Len(comments)

\* The loop of DocGenerator._traverseComments from the i-th comment on: every
\* comment but the last is processed against a virtual node under parentNode.
RECURSIVE traverseCommentsFrom(_, _, _, _, _, _, _, _, _, _)
traverseCommentsFrom(g, a, path, modID, at, virtual, parentNode, comments, i, by) ==
    IF i > Len(comments) \/ g.fatalError THEN g
    ELSE LET tags == parseComment(comments[i])
             last == isLastComment(comments, i)
             chain == IF last /\ ~virtual THEN ParentChain(g.parent, at)
                      ELSE <<parentNode>> \o ParentChain(g.parent, parentNode)
             g1 == _processNode(g, a, path, modID, at, virtual \/ ~last, chain, tags, by)
         IN  traverseCommentsFrom(g1, a, path, modID, at, virtual, parentNode, comments, i + 1, by)

\* A comment traversal that makes up no comment.  C12 is tested against it.
_traverseComments_asGiven(g, a, path, modID, at, virtual, parentNode, comments, by) ==
    traverseCommentsFrom(g, a, path, modID, at, virtual, parentNode,
                         SelectSeq(comments, isDocComment), 1, by)

\* DocGenerator._traverseComments.  Its first step either way is a trigger on
\* this._eventbus, a TypeError when the static is undefined.
_traverseComments(g, a, path, modID, at, virtual, parentNode, comments, by) ==
    LET temp == SelectSeq(comments, isDocComment)
        list == IF temp = <<>> THEN <<UndocumentComment>> ELSE temp
    IN  IF ~g.eventbus THEN [g EXCEPT !.fatalError = TRUE]
        ELSE traverseCommentsFrom(g, a, path, modID, at, virtual, parentNode, list, 1, by)

\* DocGenerator._isLastNodeInParent: whether the parent has a `body` array
\* and the node at p is its last element.
_isLastNodeInParent(a, p) ==
    /\ p # RootPath
    /\ NodeAt(a, ParentPath(p)).type \in {"Program", "BlockStatement", "ClassBody"}
    /\ p[Len(p)] = Len(NodeAt(a, ParentPath(p)).children)

\* The trailing-comment step of _traverseNode and _unwrapExportNodeAndTraverse,
\* on the state g1 the leading comments left: the trailing comments of the
\* last node (p) of a body are traversed for no node.
traverseTrailing(g1, a, path, modID, at, parentNode, trailingComments, p) ==
    IF trailingComments # <<>> /\ _isLastNodeInParent(a, p) /\ ~g1.fatalError
    THEN _traverseComments(g1, a, path, modID, at, TRUE, parentNode, trailingComments, p)
    ELSE g1

\* The leading comments traversed for the node `at`, then the trailing ones.
traverseBoth(g, a, path, modID, at, parentNode, leadingComments, trailingComments, p) ==
    traverseTrailing(
        _traverseComments(g, a, path, modID, at, FALSE, parentNode, leadingComments, p),
        a, path, modID, at, parentNode, trailingComments, p)

\* DocGenerator._traverseNode (the explored modules have no decorators).
_traverseNode(g, a, path, modID, p) ==
    traverseBoth(g, a, path, modID, p, ParentPath(p),
                 NodeAt(a, p).leadingComments, NodeAt(a, p).trailingComments, p)

\* DocGenerator._unwrapExportNodeAndTraverse
_unwrapExportNodeAndTraverse(g, a, path, modID, p) ==
    LET node == NodeAt(a, p)
        exportedASTNode == declarationOf(node)
        leadingComments == exportedASTNode.leadingComments \o node.leadingComments
        trailingComments == exportedASTNode.trailingComments \o node.trailingComments
        g1 == [g EXCEPT !.already = @ \cup {p \o <<1>>},
                        !.parent = defineParent(@, p \o <<1>>, p)]
    IN  IF exportedASTNode = NoNode THEN g
        ELSE traverseBoth(g1, a, path, modID, p \o <<1>>, p, leadingComments, trailingComments, p)

\* A _push that does not look at the marker.  C25 is tested against it.
_push_again(g, a, path, modID, p) ==
    IF p = RootPath THEN g
    ELSE LET g1 == [g EXCEPT !.already = @ \cup {p},
                             !.parent = defineParent(@, p, ParentPath(p)),
                             !.log = Append(@, Event("mark", p, 0))]
         IN  IF IsExportType(NodeAt(a, p).type)
             THEN _unwrapExportNodeAndTraverse(g1, a, path, modID, p)
             ELSE _traverseNode(g1, a, path, modID, p)

\* DocGenerator._push
_push(g, a, path, modID, p) ==
    IF p = RootPath THEN g
    ELSE IF p \in g.already THEN g
    ELSE LET g1 == [g EXCEPT !.already = @ \cup {p},
                             !.parent = defineParent(@, p, ParentPath(p)),
                             !.log = Append(@, Event("mark", p, 0))]
         IN  IF IsExportType(NodeAt(a, p).type)
             THEN _unwrapExportNodeAndTraverse(g1, a, path, modID, p)
             ELSE _traverseNode(g1, a, path, modID, p)

\* _isExportSecondPass without the class lookup: every inline exported
\* `new` initialiser defers.  C2 is tested against it.
_isExportSecondPass_anyNew(a, node) ==
    IF node.type = "ExportDefaultDeclaration"
    THEN declarationOf(node).type \in {"Identifier", "NewExpression"}
    ELSE IF node.type = "ExportNamedDeclaration"
    THEN \/ Len(specifiersOf(node)) > 0
         \/ /\ declarationOf(node).type = "VariableDeclaration"
            /\ \E i \in 1..Len(declarationsOf(declarationOf(node))) :
                  LET declaration == declarationsOf(declarationOf(node))[i]
                  IN  /\ initOf(declaration) # NoNode
                      /\ initOf(declaration).type = "NewExpression"
    ELSE FALSE

\* A deferral of the exports that stand behind the class declaration only.
\* C20 is tested against it.
_isExportSecondPass_behind(a, node) ==
    /\ IsExportType(node.type)
    /\ (Len(specifiersOf(node)) > 0
           \/ declarationOf(node).type \in {"Identifier", "NewExpression"})
    /\ \E i, j \in 1..Len(programBody(a)) :
           i < j /\ programBody(a)[i].type = "ClassDeclaration" /\ programBody(a)[j] = node

\* DocGenerator._isExportSecondPass: whether the node is stored for the second pass.
_isExportSecondPass(a, node) ==
    IF node.type = "ExportDefaultDeclaration"
    THEN declarationOf(node).type \in {"Identifier", "NewExpression"}
    ELSE IF node.type = "ExportNamedDeclaration"
    THEN \/ Len(specifiersOf(node)) > 0
         \/ /\ declarationOf(node).type = "VariableDeclaration"
            /\ \E i \in 1..Len(declarationsOf(declarationOf(node))) :
                  LET declaration == declarationsOf(declarationOf(node))[i]
                  IN  /\ initOf(declaration) # NoNode
                      /\ initOf(declaration).type = "NewExpression"
                      /\ findClassDeclarationNode(a, calleeName(initOf(declaration))) # 0
    ELSE FALSE


---------------------------------------------------------------------------
(* Second pass: reconciliation of the deferred export nodes.               *)

\* String(value) as a template literal or `+=` renders it.
StringOf(s) == IF s = null THEN <<"null">> ELSE IF s = undefined THEN <<"undefined">> ELSE s

\* A reconciliation that leaves `ignore` as the first pass set it.  C19 is
\* tested against it.
setExport_keepIgnore(g, i, importStyle, by) ==
    [g EXCEPT !.docDB[i].importStyle = importStyle,
              !.docDB[i].export = TRUE,
              !.log = Append(@, Event("mutate", by, g.docDB[i].id))]

\* The three assignments every reconciliation branch makes to a found doc object.
setExport(g, i, importStyle, by) ==
    [g EXCEPT !.docDB[i].importStyle = importStyle,
              !.docDB[i].export = TRUE,
              !.docDB[i].ignore = FALSE,
              !.log = Append(@, Event("mutate", by, g.docDB[i].id))]

\* docDB.find(...) followed by `if (found.length > 0) { found[0]... }`.
findAndSetExport(g, name, path, importStyle, by) ==
    LET found == find(g.docDB, "*", name, path)
        g1 == [g EXCEPT !.log = Append(@, Event("find", by, 0))]
    IN  IF Len(found) > 0 THEN setExport(g1, found[1], importStyle, by) ELSE g1

\* A reconciliation that inserts the synthesized doc object whether or not the
\* variable has one.  C13 is tested against it.
_updateOrCreateVarDoc_create(g, a, path, modID, targetVariableName, targetClassName, p) ==
    LET virtualVarNode ==
            createVariableDeclarationAndNewExpressionNode(targetVariableName, targetClassName,
                                                          NodeAt(a, p))
        virtualVarDoc == createDoc(g.nextID, modID, a, path, "ModuleVariable", virtualVarNode,
                                   p, TRUE, <<>>, <<>>)
    IN  _insertStaticDoc([g EXCEPT !.nextID = incrementID(@), !.log = Append(@, Event("find", p, 0))],
                         [virtualVarDoc EXCEPT !.export = TRUE], p)

\* DocGenerator._updateOrCreateVarDoc.  The virtual node's parent is the body
\* array, which has neither a type nor a parent: its parent chain is empty.
_updateOrCreateVarDoc(g, a, path, modID, targetVariableName, targetClassName, p) ==
    LET exportNode == NodeAt(a, p)
        isDefaultExport == exportNode.type = "ExportDefaultDeclaration"
        virtualVarNode ==
            createVariableDeclarationAndNewExpressionNode(targetVariableName, targetClassName, exportNode)
        tags == IF Len(virtualVarNode.leadingComments) > 0
                THEN parseComment(virtualVarNode.leadingComments[Len(virtualVarNode.leadingComments)])
                ELSE <<>>
        virtualVarDoc == createDoc(g.nextID, modID, a, path, "ModuleVariable", virtualVarNode,
                                   p, TRUE, <<>>, tags)
        importStyle == IF isDefaultExport THEN targetVariableName ELSE Braces(targetVariableName)
        type == Longname(path, targetClassName)
        existingVarDoc == find(g.docDB, "ModuleVariable", targetVariableName, path)
        g1 == [g EXCEPT !.nextID = incrementID(@), !.log = Append(@, Event("find", p, 0))]
    IN  IF Len(existingVarDoc) > 0
        THEN LET i == existingVarDoc[1]
             IN  [g1 EXCEPT !.docDB[i].description =
                                StringOf(@) \o <<"\n">> \o StringOf(virtualVarDoc.description),
                            !.docDB[i].export = TRUE,
                            !.docDB[i].importStyle = importStyle,
                            !.docDB[i].type = type,
                            !.docDB[i].ignore = FALSE,
                            !.log = Append(@, Event("mutate", p, g.docDB[i].id))]
        ELSE _insertStaticDoc(g1,
                 [virtualVarDoc EXCEPT !.export = TRUE, !.importStyle = importStyle, !.type = type],
                 p)

\* The variable declaration `export default <identifier>` refers to, 0 for none.
defaultExportVarNode(a, exportNode) ==
    IF declarationOf(exportNode).type = "Identifier"
    THEN findVariableDeclarationAndNewExpressionNode(a, declarationOf(exportNode).name)
    ELSE 0

\* The AST after DocGenerator._processDefaultExport: the variable declaration an
\* exported identifier resolves to is sanitized.
astAfterDefaultExport(a, exportNode) ==
    LET varNode == defaultExportVarNode(a, exportNode)
    IN  IF varNode # 0
        THEN ReplaceAt(a, StmtPath(varNode), sanitize(NodeAt(a, StmtPath(varNode))))
        ELSE a

\* DocGenerator._processDefaultExport on the DocDB.  A `new` expression has no
\* name: the last two queries then ask for the name `undefined`, which no doc
\* object has.
_processDefaultExport(g, a, path, modID, p) ==
    LET exportNode == NodeAt(a, p)
        declaration == declarationOf(exportNode)
        varNode == defaultExportVarNode(a, exportNode)
        a1 == astAfterDefaultExport(a, exportNode)
        targetClassName ==
            CASE declaration.type = "NewExpression" ->
                     IF calleeOf(declaration).type \in {"Identifier", "MemberExpression"}
                     THEN calleeOf(declaration).name ELSE EmptyString
              [] declaration.type = "Identifier" ->
                     IF varNode # 0
                     THEN calleeName(initOf(declarationsOf(programBody(a)[varNode])[1]))
                     ELSE declaration.name
              [] OTHER -> undefined
        targetVariableName ==
            CASE declaration.type = "NewExpression" -> LowerFirst(targetClassName)
              [] declaration.type = "Identifier" /\ varNode # 0 -> declaration.name
              [] OTHER -> undefined
        pseudoClassExport == declaration.type = "NewExpression" \/ varNode # 0
        classDoc == find(g.docDB, "*", targetClassName, path)
        g0 == [g EXCEPT !.log = Append(@, Event("find", p, 0))]
        g1 == IF Len(classDoc) > 0
              THEN LET gc == setExport(g0, classDoc[1],
                                       IF pseudoClassExport THEN null ELSE targetClassName, p)
                   IN  IF Truthy(targetVariableName)
                       THEN _updateOrCreateVarDoc(gc, a1, path, modID, targetVariableName,
                                                  targetClassName, p)
                       ELSE gc
              ELSE g0
        g2 == findAndSetExport(g1, declaration.name, path, declaration.name, p)
    IN  findAndSetExport(g2, declaration.name, path, declaration.name, p)

\* The first loop of DocGenerator._processNamedExport, from the i-th declarator on.
RECURSIVE namedExportDeclarationsFrom(_, _, _, _, _, _)
namedExportDeclarationsFrom(g, a, path, modID, p, i) ==
    LET declarations == declarationsOf(declarationOf(NodeAt(a, p)))
    IN  IF i > Len(declarations) THEN g
        ELSE LET declaration == declarations[i]
                 init == initOf(declaration)
                 targetClassName == calleeName(init)
                 targetVariableName == declaration.name
                 classDoc == find(g.docDB, "*", targetClassName, path)
                 g0 == [g EXCEPT !.log = Append(@, Event("find", p, 0))]
                 g1 == IF Len(classDoc) > 0 THEN setExport(g0, classDoc[1], null, p) ELSE g0
                 g2 == IF Truthy(targetVariableName) /\ Truthy(targetClassName)
                       THEN _updateOrCreateVarDoc(g1, a, path, modID, targetVariableName,
                                                  targetClassName, p)
                       ELSE g1
             IN  IF init = NoNode \/ init.type # "NewExpression"
                 THEN namedExportDeclarationsFrom(g, a, path, modID, p, i + 1)
                 ELSE namedExportDeclarationsFrom(g2, a, path, modID, p, i + 1)

\* The second loop of DocGenerator._processNamedExport, from the i-th specifier on.
RECURSIVE namedExportSpecifiersFrom(_, _, _, _, _)
namedExportSpecifiersFrom(g, a, path, p, i) ==
    LET specifiers == specifiersOf(NodeAt(a, p))
    IN  IF i > Len(specifiers) THEN g
        ELSE LET name == specifiers[i].name
                 varNode == findVariableDeclarationAndNewExpressionNode(a, name)
                 targetClassName ==
                     IF varNode # 0
                     THEN calleeName(initOf(declarationsOf(programBody(a)[varNode])[1]))
                     ELSE name
                 pseudoClassExport == varNode # 0
                 g1 == IF varNode # 0 THEN findAndSetExport(g, name, path, Braces(name), p) ELSE g
                 g2 == findAndSetExport(g1, name, path,
                                        IF pseudoClassExport THEN null ELSE Braces(targetClassName), p)
                 g3 == findAndSetExport(g2, name, path, Braces(name), p)
                 g4 == findAndSetExport(g3, name, path, Braces(name), p)
             IN  namedExportSpecifiersFrom(g4, a, path, p, i + 1)

\* DocGenerator._processNamedExport
_processNamedExport(g, a, path, modID, p) ==
    LET exportNode == NodeAt(a, p)
        inline == declarationOf(exportNode).type = "VariableDeclaration"
        g1 == IF inline THEN namedExportDeclarationsFrom(g, a, path, modID, p, 1) ELSE g
    IN  IF inline /\ Len(specifiersOf(exportNode)) = 0 THEN g1
        ELSE namedExportSpecifiersFrom(g1, a, path, p, 1)

\* A check that parses the first leading comment.  C6 is tested against it.
exportNodeHasIgnoreTag_first(exportNode) ==
    /\ Len(exportNode.leadingComments) > 0
    /\ HasTag(parseComment(exportNode.leadingComments[1]), "@ignore")

\* The check DocGenerator._processExports makes of the leading comments of an
\* export node: the tags of its last leading comment are searched for @ignore.
exportNodeHasIgnoreTag(exportNode) ==
    /\ Len(exportNode.leadingComments) > 0
    /\ HasTag(parseComment(exportNode.leadingComments[Len(exportNode.leadingComments)]), "@ignore")

\* Whether that turn throws: for `export default new a['b']()` the class name
\* is callee.property.name, undefined, and `targetClassName.replace` is a
\* TypeError.
exportNodeThrows(exportNode) ==
    /\ ~exportNodeHasIgnoreTag(exportNode)
    /\ exportNode.type = "ExportDefaultDeclaration"
    /\ declarationOf(exportNode).type = "NewExpression"
    /\ calleeOf(declarationOf(exportNode)).type = "MemberExpression"
    /\ calleeOf(declarationOf(exportNode)).name = undefined

\* One turn of the loop of DocGenerator._processExports, on the DocDB.
processExportNode(g, a, path, modID, p) ==
    LET exportNode == NodeAt(a, p)
    IN  IF exportNodeHasIgnoreTag(exportNode)
        THEN [g EXCEPT !.log = Append(@, Event("ignored", p, 0))]
        ELSE LET g1 == [g EXCEPT !.log = Append(@, Event("reconcile", p, 0))]
             IN  IF exportNode.type = "ExportDefaultDeclaration"
                 THEN _processDefaultExport(g1, a, path, modID, p)
                 ELSE IF exportNode.type = "ExportNamedDeclaration"
                 THEN _processNamedExport(g1, a, path, modID, p)
                 ELSE g1

\* The AST after that turn.
astAfterExportNode(a, p) ==
    LET exportNode == NodeAt(a, p)
    IN  IF ~exportNodeHasIgnoreTag(exportNode) /\ exportNode.type = "ExportDefaultDeclaration"
        THEN astAfterDefaultExport(a, exportNode)
        ELSE a

---------------------------------------------------------------------------
(* The modules that are explored: every sequence of at most MaxBody        *)
(* top-level statements of the catalog that is a valid ES module (no name  *)
(* declared twice, at most one default export, no name exported twice).    *)

LetNew(comments) ==
    VariableDeclaration(<<VariableDeclarator(foo, NewExpression(Foo))>>, comments)
LetNumber(comments) ==
    VariableDeclaration(<<VariableDeclarator(foo, NumericLiteral)>>, comments)

\* class Foo {}                 let foo = new Foo();      let foo = 1;
\* function foo() {}            export default class Foo {}
\* export class Foo {}          export function foo() {}  export let foo = 1;
Declarations ==
    { ClassDeclaration(Foo, <<PlainComment>>),
      ClassDeclaration(Foo, <<IgnoreComment>>),
      LetNew(<<>>),
      LetNumber(<<>>),
      FunctionDeclaration(foo, <<>>),
      ExportDefaultDeclaration(ClassDeclaration(Foo, <<>>), <<PlainComment>>),
      ExportNamedDeclaration(ClassDeclaration(Foo, <<>>), <<>>, <<>>),
      ExportNamedDeclaration(FunctionDeclaration(foo, <<>>), <<>>, <<PlainComment>>),
      ExportNamedDeclaration(LetNumber(<<>>), <<>>, <<>>) }

\* export default Foo;          export default foo;       export default new Foo();
\* export { Foo };              export { foo };           export let foo = new Foo();
\* each without a comment and with an @ignore comment, and some with more.
Exports ==
    UNION { { ExportDefaultDeclaration(Identifier(Foo), c),
              ExportDefaultDeclaration(Identifier(foo), c),
              ExportDefaultDeclaration(NewExpression(Foo), c),
              ExportNamedDeclaration(NoNode, <<ExportSpecifier(Foo)>>, c),
              ExportNamedDeclaration(NoNode, <<ExportSpecifier(foo)>>, c),
              ExportNamedDeclaration(LetNew(<<>>), <<>>, c) } : c \in {<<>>, <<IgnoreComment>>} }
    \cup { ExportDefaultDeclaration(NewExpression(Foo), <<PlainComment>>),
           ExportDefaultDeclaration(Identifier(Foo), <<IgnoreComment, PlainComment>>),
           ExportDefaultDeclaration(Identifier(Foo), <<PlainComment, IgnoreComment>>) }

Statements == Declarations \cup Exports

\* The names a statement declares, exports by name, and whether it is a default export.
DeclaredNames(n) ==
    LET d == IF IsExportType(n.type) THEN declarationOf(n) ELSE n
    IN  IF d.type \in {"ClassDeclaration", "FunctionDeclaration"} THEN {d.name}
        ELSE IF d.type = "VariableDeclaration"
        THEN {declarationsOf(d)[i].name : i \in 1..Len(declarationsOf(d))}
        ELSE {}
ExportedNames(n) ==
    IF n.type = "ExportNamedDeclaration"
    THEN DeclaredNames(n) \cup {specifiersOf(n)[i].name : i \in 1..Len(specifiersOf(n))}
    ELSE {}
IsDefaultExport(n) == n.type = "ExportDefaultDeclaration"

\* Whether statement n may follow the statements of body in a valid module.
MayFollow(body, n) ==
    \A i \in 1..Len(body) :
        /\ DeclaredNames(body[i]) \cap DeclaredNames(n) = {}
        /\ ExportedNames(body[i]) \cap ExportedNames(n) = {}
        /\ ~(IsDefaultExport(body[i]) /\ IsDefaultExport(n))

RECURSIVE Bodies(_)
Bodies(len) ==
    IF len = 0 THEN {<<>>}
    ELSE LET shorter == Bodies(len - 1)
         IN  shorter \cup
             { Append(b, n) : <<b, n>> \in
                   { bn \in shorter \X Statements :
                         Len(bn[1]) = len - 1 /\ MayFollow(bn[1], bn[2]) } }

Programs == Bodies(MaxBody) \ {<<>>}

\* The values of the handleError option, and `void 0` in its place.
HandleErrors == {"throw", "log"}
void0 == "#undefined"

---------------------------------------------------------------------------
(* The state machine.                                                      *)

\* this._moduleID = void 0
NoModuleID == 0 - 1

Init ==
    /\ pc = "idle"
    /\ source = NoNode
    /\ ast = NoNode
    /\ _ast = FALSE
    /\ filePath = undefined
    /\ handleError = void0
    /\ moduleID = NoModuleID
    /\ docDB = <<>>
    /\ nextID = 0
    /\ exportNodesPass = <<>>
    /\ walk = <<>>
    /\ already = {}
    /\ parent = <<>>
    /\ exportIdx = 0
    /\ invalid = <<>>
    /\ call = 0
    /\ suspended = <<>>
    /\ _sequence = 0
    /\ _tjsdocTestName = <<>>
    /\ handed = <<>>
    /\ log = <<>>

\* The working state a handler starts from.
Current == [Working(docDB, nextID, already, parent, log) EXCEPT !.eventbus = _ast]

\* A default that logs.  C16 is tested against it.
defaultHandleError_log(option) == IF option = void0 THEN "log" ELSE option

\* `handleError = 'throw'`: the default of the parameter.
defaultHandleError(option) == IF option = void0 THEN "throw" ELSE option

\* A start that leaves the queue as the run before left it.  C18 is tested
\* against it.
resetExportNodesPass_keep(queue) == queue

\* this._exportNodesPass.length = 0
resetExportNodesPass(queue) == <<>>

\* What a call was handed: the AST, the handleError option, and the call it
\* was made from (0 when no call was running).
Handed(node, option, from) == [ast |-> node, handleError |-> option, from |-> from]

\* DocGenerator.resetAndTraverse({ ast, pathResolver, handleError }) up to the
\* call of the AST walker: the statics are set, the file doc is inserted and the
\* walker is started on the AST, whose nodes carry no marker yet.
beginTraverse(body, path, option) ==
    /\ source' = File(body)
    /\ ast' = File(body)
    /\ filePath' = path
    /\ call' = Len(handed) + 1
    /\ handed' = Append(handed, Handed(File(body), option, IF pc = "traverse" THEN call ELSE 0))
    /\ UNCHANGED <<_sequence, _tjsdocTestName>>
    /\ handleError' = defaultHandleError(option)
    /\ docDB' = Append(docDB, createFileDoc(nextID, path))
    /\ walk' = PreOrder(File(body), RootPath)
    /\ pc' = "traverse"
    /\ _ast' = TRUE
    /\ exportNodesPass' = resetExportNodesPass(exportNodesPass)
    /\ nextID' = incrementID(nextID)
    /\ log' = Append(log, Event("insert", RootPath, nextID))
    /\ moduleID' = nextID
    /\ exportIdx' = 0
    /\ already' = {}
    /\ parent' = <<>>
    /\ UNCHANGED invalid

\* DocGenerator.resetAndTraverse on one module of the catalog.
resetAndTraverse ==
    /\ pc = "idle"
    /\ \E body \in Programs, path \in FilePaths, option \in HandleErrors :
           beginTraverse(body, path, option)
    /\ UNCHANGED suspended

\* A walker that ignores the visitor's `null`.  C3 is tested against it.
skipChildren_descend(rest, p) == rest

\* What is left to walk once the walker was told not to descend into the node at p.
skipChildren(rest, p) == SelectSeq(rest, LAMBDA q : ~IsPrefix(p, q))

\* A catch block that throws every error again.  C15 is tested against it.
onFatalError_throw(option) == "throw"

\* `switch (this._handleError)` in the catch block of enterNode: the error is
\* logged, thrown again, or (no case matches) dropped.
onFatalError(option) ==
    CASE option = "log" -> "log"
      [] option = "throw" -> "throw"
      [] OTHER -> "drop"

\* { filePath, node, fatalError }: what the invalid-code logger is handed.
InvalidCode(path, p) == [filePath |-> path, node |-> p]

\* Whether _isExportSecondPass gets as far as its class lookup, a trigger on
\* this._eventbus: a named export of a variable that is a new expression.
looksUpClass(node) ==
    /\ node.type = "ExportNamedDeclaration"
    /\ Len(specifiersOf(node)) = 0
    /\ declarationOf(node).type = "VariableDeclaration"
    /\ \E i \in 1..Len(declarationsOf(declarationOf(node))) :
           LET declaration == declarationsOf(declarationOf(node))[i]
           IN  initOf(declaration) # NoNode /\ initOf(declaration).type = "NewExpression"

\* The enterNode callback of DocGenerator._traverse on the next node of the
\* walk, with its try / catch: a caught error is logged, or thrown again and
\* then leaves the walker, _traverse and resetAndTraverse.  With the statics
\* undefined every use of this._eventbus is such an error.
enterNode ==
    /\ pc = "traverse"
    /\ walk # <<>>
    /\ LET p == Head(walk)
           lookupThrows == ~_ast /\ looksUpClass(NodeAt(ast, p))
       IN  IF ~lookupThrows /\ _isExportSecondPass(ast, NodeAt(ast, p))
           THEN /\ exportNodesPass' = Append(exportNodesPass, p)
                /\ walk' = skipChildren(Tail(walk), p)
                /\ log' = Append(log, Event("defer", p, 0))
                /\ UNCHANGED <<pc, docDB, nextID, already, parent, invalid>>
           ELSE LET called == [Current EXCEPT !.log = Append(@, Event("push", p, 0))]
                    g == IF lookupThrows THEN [Current EXCEPT !.fatalError = TRUE]
                         ELSE _push(called, ast, filePath, moduleID, p)
                IN  /\ docDB' = g.docDB
                    /\ nextID' = g.nextID
                    /\ already' = g.already
                    /\ parent' = g.parent
                    /\ UNCHANGED exportNodesPass
                    /\ IF ~g.fatalError
                       THEN /\ walk' = Tail(walk)
                            /\ log' = g.log
                            /\ UNCHANGED <<pc, invalid>>
                       ELSE IF onFatalError(handleError) = "log"
                       THEN /\ walk' = Tail(walk)
                            /\ invalid' = Append(invalid, InvalidCode(filePath, p))
                            /\ log' = Append(g.log, Event("invalid", p, 0))
                            /\ UNCHANGED pc
                       ELSE IF onFatalError(handleError) = "throw"
                       THEN /\ walk' = <<>>
                            /\ pc' = "thrown"
                            /\ log' = Append(g.log, Event("throw", p, 0))
                            /\ UNCHANGED invalid
                       ELSE /\ walk' = Tail(walk)
                            /\ log' = g.log
                            /\ UNCHANGED <<pc, invalid>>
    /\ UNCHANGED <<source, ast, _ast, filePath, handleError, moduleID, exportIdx, call,
                   suspended, _sequence, _tjsdocTestName, handed>>

\* A second pass that starts one node early.  C1 is tested against it.
walkerReturned_early(rest) == Len(rest) <= 1

\* DocGenerator._traverse calls _processExports when the walker has returned.
walkerReturned(rest) == rest = <<>>

\* A loop that stops one turn short.  C5 is tested against it.
exportsLeft_short(queue, done) == done < Len(queue) - 1

\* The `for ... of` loop of DocGenerator._processExports: whether a turn is
\* left after `done` turns.
exportsLeft(queue, done) == done < Len(queue)

\* A loop that goes through the queue from its end.  C4 is tested against it.
nextExportNode_reverse(queue, done) == queue[Len(queue) - done]

\* The export node of the turn that follows `done` turns of the loop.
nextExportNode(queue, done) == queue[done + 1]

\* One turn of the loop of DocGenerator._processExports, which no try block
\* encloses: with the statics undefined the turn throws its TypeError out of
\* resetAndTraverse (this._eventbus or this._pathResolver is read first).
_processExports ==
    /\ pc = "traverse"
    /\ walkerReturned(walk)
    /\ exportsLeft(exportNodesPass, exportIdx)
    /\ LET p == nextExportNode(exportNodesPass, exportIdx)
           g == processExportNode(Current, ast, filePath, moduleID, p)
       IN  IF _ast /\ ~exportNodeThrows(NodeAt(ast, p))
           THEN /\ ast' = astAfterExportNode(ast, p)
                /\ docDB' = g.docDB
                /\ nextID' = g.nextID
                /\ log' = g.log
                /\ exportIdx' = exportIdx + 1
                /\ UNCHANGED pc
           ELSE /\ pc' = "thrown"
                /\ log' = Append(log, Event("throw", p, 0))
                /\ UNCHANGED <<ast, docDB, nextID, exportIdx>>
    /\ UNCHANGED <<source, _ast, filePath, handleError, moduleID, exportNodesPass,
                   walk, already, parent, invalid, call, suspended, _sequence,
                   _tjsdocTestName, handed>>

\* What a call of resetAndTraverse holds on to while a call made from one of
\* its callbacks runs: the walker's place in its AST, the AST object with its
\* markers, and the `filePath` constant of _traverse.
Suspended ==
    [call |-> call, source |-> source, ast |-> ast, walk |-> walk, already |-> already,
     parent |-> parent, filePath |-> filePath]

\* The end of DocGenerator.resetAndTraverse: the statics are reset.  When the
\* call was made from a callback of another call, that one goes on from where
\* it stood, with the statics as they are now.
resetStatics ==
    /\ pc = "traverse"
    /\ walkerReturned(walk)
    /\ ~exportsLeft(exportNodesPass, exportIdx)
    /\ _ast' = FALSE
    /\ filePath' = undefined
    /\ handleError' = void0
    /\ moduleID' = NoModuleID
    /\ exportNodesPass' = <<>>
    /\ exportIdx' = 0
    /\ IF suspended = <<>>
       THEN /\ pc' = "done"
            /\ UNCHANGED <<source, ast, walk, already, parent, call, suspended>>
       ELSE /\ pc' = "traverse"
            /\ source' = Head(suspended).source
            /\ ast' = Head(suspended).ast
            /\ walk' = Head(suspended).walk
            /\ already' = Head(suspended).already
            /\ parent' = Head(suspended).parent
            /\ call' = Head(suspended).call
            /\ suspended' = Tail(suspended)
    /\ UNCHANGED <<docDB, nextID, invalid, _sequence, _tjsdocTestName, handed, log>>

Next ==
    \/ resetAndTraverse
    \/ enterNode
    \/ _processExports
    \/ resetStatics

Spec == Init /\ [][Next]_vars

---------------------------------------------------------------------------
(* A project of several files: the caller hands its files to the main and  *)
(* the test generator one after the other, each with a path of its own,    *)
(* and goes on with the next file when a run has returned or thrown.  The  *)
(* modules of a project have class members, a class expression below the   *)
(* top level, a declaration that makes the doc constructor throw, and the  *)
(* deferred exports of a class on either side of its declaration.          *)

\* let {} = foo;
LetEmptyPattern ==
    VariableDeclaration(<<VariableDeclarator(EmptyObjectPattern, Identifier(foo))>>, <<>>)

\* /** d */ class Foo { bar() {} }
ClassFooWithBar == ClassWith(Foo, <<ClassMethod(bar, <<>>)>>, <<PlainComment>>)

\* function foo() { let Bar = class { baz() {} }; }
FunctionWithInnerClass ==
    FunctionWith(foo,
        <<VariableDeclaration(
              <<VariableDeclarator(Bar, ClassExpression(<<ClassMethod(baz, <<>>)>>))>>, <<>>)>>,
        <<>>)

\* export let foo = new Foo(), bar = new Foo();
ExportLetTwoNew ==
    ExportNamedDeclaration(
        VariableDeclaration(<<VariableDeclarator(foo, NewExpression(Foo)),
                              VariableDeclarator(bar, NewExpression(Foo))>>, <<>>),
        <<>>, <<>>)

Reverse(s) == [i \in 1..Len(s) |-> s[Len(s) + 1 - i]]

\* The exports of Foo that are deferred.
ExportsOfFoo ==
    { ExportDefaultDeclaration(Identifier(Foo), <<>>),
      ExportDefaultDeclaration(NewExpression(Foo), <<>>),
      ExportNamedDeclaration(NoNode, <<ExportSpecifier(Foo)>>, <<>>) }

FileModules ==
    { <<ClassFooWithBar, FunctionWithInnerClass>>,
      <<ExportNamedDeclaration(FunctionDeclaration(foo, <<>>), <<>>, <<>>)>>,
      <<ExportDefaultDeclaration(Identifier(Foo), <<>>), LetEmptyPattern,
        ClassDeclaration(Foo, <<PlainComment>>)>> }
    \cup { <<ClassDeclaration(Foo, <<IgnoreComment>>), ExportLetTwoNew>>,
           <<FunctionDeclaration(foo, <<IgnoreComment>>),
             ExportNamedDeclaration(NoNode, <<ExportSpecifier(foo)>>, <<>>)>>,
           <<ClassDeclaration(Foo, <<PlainComment>>), LetNew(<<IgnoreComment>>),
             ExportDefaultDeclaration(Identifier(foo), <<PlainComment>>)>> }
    \cup { <<ClassDeclaration(Foo, <<IgnoreComment>>), e>> : e \in ExportsOfFoo }
    \cup { <<e, ClassDeclaration(Foo, <<IgnoreComment>>)>> : e \in ExportsOfFoo }

\* The paths of the files of the project, in the order they are generated.
FileNames == <<"a.js", "b.js", "c.js", "d.js">>

\* The number of Mocha calls (describe, it, ...) of the test files.
MochaCalls == {0, 1}

IsFileDoc(doc) == doc.category \in {"ModuleFile", "ModuleTestFile"}

\* The files handed to a generator so far.
FilesBegun == Len(SelectSeq(docDB, IsFileDoc))

\* Whether the caller may hand the next file to a generator: no run is in
\* progress and a file is left.
NextFileDue == pc \in {"idle", "done", "thrown"} /\ FilesBegun < MaxFiles

\* DocGenerator.resetAndTraverse on the next file of the project.
resetAndTraverseFile ==
    /\ NextFileDue
    /\ \E body \in FileModules, option \in HandleErrors \cup {void0} :
           beginTraverse(body, <<FileNames[FilesBegun + 1]>>, option)
    /\ UNCHANGED suspended

\* ModuleTestFileDoc.create and TestDoc.create: the fields that are compared.
createTestDoc(id, modID, path, category, p) ==
    [id |-> id, moduleID |-> modID, category |-> category, name |-> path, filePath |-> path,
     export |-> FALSE, importStyle |-> null, ignore |-> FALSE, type |-> null,
     description |-> null, undocument |-> FALSE, node |-> p, virtual |-> FALSE]

\* TestDocGenerator.resetAndTraverse on the next file of the project, a test
\* file: the file doc and one doc per Mocha call take their IDs from the one
\* counter.  The statics it sets are those of TestDocGenerator.
TestDocGenerator_resetAndTraverse ==
    /\ NextFileDue
    /\ \E calls \in MochaCalls :
           LET path == <<FileNames[FilesBegun + 1]>>
           IN  /\ docDB' = docDB
                      \o <<createTestDoc(nextID, nextID, path, "ModuleTestFile", RootPath)>>
                      \o [i \in 1..calls |->
                             createTestDoc(nextID + i, nextID, path, "Test", StmtPath(i))]
               /\ log' = log
                      \o <<Event("insert", RootPath, nextID)>>
                      \o [i \in 1..calls |-> Event("insert", StmtPath(i), nextID + i)]
               /\ nextID' = nextID + 1 + calls
               /\ _sequence' = _sequence + calls
    /\ handed' = Append(handed, Handed(NoNode, void0, 0))
    /\ UNCHANGED <<pc, source, ast, _ast, filePath, handleError, moduleID, exportNodesPass,
                   walk, already, parent, exportIdx, invalid, call, suspended, _tjsdocTestName>>

NextFiles ==
    \/ resetAndTraverseFile
    \/ TestDocGenerator_resetAndTraverse
    \/ enterNode
    \/ _processExports
    \/ resetStatics

SpecFiles == Init /\ [][NextFiles]_vars

---------------------------------------------------------------------------
(* One run on a module whose nodes carry virtual tags and several doc      *)
(* comments, or have the shapes the classifier looks into.                 *)

\* this.baz = 1;
ThisBaz(comments) ==
    ExpressionStatement(AssignmentExpression(MemberExpression(ThisExpression, baz),
                                             NumericLiteral), comments)
\* let <name> = <init>;
LetInit(name, init, comments) == VariableDeclaration(<<VariableDeclarator(name, init)>>, comments)

\* let foo = function () {};      let Foo = class { bar() {} };
\* /** @typedef T */ let foo = () => {};
\* export default foo = function () {};      foo = function () {};
\* export default () => {};       export class Foo { bar() { this.baz = 1; } }
\* class Foo { bar() { this.baz = 1; } }      this.baz = 1;
\* function foo() { let Bar = class { bar() { this.baz = 1; } }; }
\* export let foo = 1, bar = new Foo(); class Foo {}
\* export let foo = new Foo(), bar = 1; class Foo {}
\* class Foo {} export default new foo['Bar'](); export {Foo};
InnerModules ==
    { <<LetInit(foo, FunctionExpression(foo), <<PlainComment>>)>>,
      <<LetInit(Foo, NamedClassExpression(Foo, <<ClassMethod(bar, <<>>)>>), <<>>)>>,
      <<LetInit(foo, ArrowFunctionExpression(foo), <<TypedefComment>>)>>,
      <<ExportDefaultDeclaration(AssignmentExpression(Identifier(foo), FunctionExpression(foo)),
                                 <<PlainComment>>)>>,
      <<ExpressionStatement(AssignmentExpression(Identifier(foo), FunctionExpression(foo)), <<>>)>>,
      <<ExportDefaultDeclaration(ArrowFunctionExpression(foo), <<>>)>>,
      <<ExportNamedDeclaration(
            ClassWith(Foo, <<ClassMethodWith(bar, <<ThisBaz(<<PlainComment>>)>>, <<>>)>>, <<>>),
            <<>>, <<PlainComment>>)>>,
      <<ClassWith(Foo, <<ClassMethodWith(bar, <<ThisBaz(<<>>)>>, <<>>)>>, <<PlainComment>>)>>,
      <<ThisBaz(<<PlainComment>>)>>,
      <<FunctionWith(foo,
            <<LetInit(Bar, NamedClassExpression(Bar,
                               <<ClassMethodWith(bar, <<ThisBaz(<<>>)>>, <<>>)>>), <<>>)>>,
            <<>>)>>,
      <<ExportNamedDeclaration(
            VariableDeclaration(<<VariableDeclarator(foo, NumericLiteral),
                                  VariableDeclarator(bar, NewExpression(Foo))>>, <<>>),
            <<>>, <<PlainComment>>),
        ClassDeclaration(Foo, <<PlainComment>>)>>,
      <<ExportNamedDeclaration(
            VariableDeclaration(<<VariableDeclarator(foo, NewExpression(Foo)),
                                  VariableDeclarator(bar, NumericLiteral)>>, <<>>),
            <<>>, <<PlainComment>>),
        ClassDeclaration(Foo, <<PlainComment>>)>>,
      <<ClassDeclaration(Foo, <<PlainComment>>),
        ExportDefaultDeclaration(NewComputedExpression(foo), <<>>),
        ExportNamedDeclaration(NoNode, <<ExportSpecifier(Foo)>>, <<>>)>> }

ShapeModules ==
    InnerModules \cup
    { <<ClassDeclaration(Foo, <<TypedefExternalComment>>)>>,
      <<ClassDeclaration(Foo, <<ExternalTypedefComment>>)>>,
      <<FunctionDeclaration(foo, <<TypedefComment>>), ClassDeclaration(Foo, <<PlainComment>>)>>,
      <<FunctionDeclaration(foo, <<TypedefComment, PlainComment>>)>>,
      <<ClassDeclaration(Foo, <<PlainComment, IgnoreComment>>)>>,
      <<Trailing(ClassDeclaration(Foo, <<PlainComment>>), <<TypedefComment, PlainComment>>)>>,
      <<Trailing(FunctionDeclaration(foo, <<>>), <<TypedefComment>>),
        ClassDeclaration(Foo, <<TypedefComment, TypedefExternalComment>>)>>,
      <<Trailing(ExportNamedDeclaration(ClassDeclaration(Foo, <<TypedefComment>>), <<>>,
                                        <<PlainComment>>),
                 <<ExternalTypedefComment>>)>> }

\* DocGenerator.resetAndTraverse on one of these modules.
resetAndTraverseShape ==
    /\ pc = "idle"
    /\ UNCHANGED suspended
    /\ \E body \in ShapeModules, path \in FilePaths, option \in HandleErrors :
           beginTraverse(body, path, option)

NextShapes ==
    \/ resetAndTraverseShape
    \/ enterNode
    \/ _processExports
    \/ resetStatics

SpecShapes == Init /\ [][NextShapes]_vars

---------------------------------------------------------------------------
(* TestDocGenerator on the test files of a project, node by node.  While   *)
(* it runs (pc = "test") the variables source, ast, filePath, handleError, *)
(* moduleID, walk, already and parent hold its AST, its statics and its     *)
(* walker; DocGenerator does not run in this specification.                *)

describe == <<"describe">>
it == <<"it">>
context == <<"context">>
suite == <<"suite">>
test == <<"test">>
MochaNames == {describe, it, context, suite, test}

\* <callee>(<arguments>): the name of the callee identifier is kept as the
\* name of the node, the arguments are its children.
CallExpression(callee, arguments) == Node("CallExpression", callee, arguments, <<>>)
\* () => { <body> }
ArrowFunctionWith(body) == Node("ArrowFunctionExpression", undefined, <<BlockStatement(body)>>, <<>>)
\* <callee>('...', () => { <body> });
TestCall(callee, body, comments) ==
    ExpressionStatement(CallExpression(callee, <<StringLiteral, ArrowFunctionWith(body)>>), comments)

\* describe('', () => { it('', ...); it('', ...); });
\* suite('', () => { context('', () => { /** d */ test('', ...); }); });
\* it('', ...); foo();
\* describe(); it('', ...);          /** d */ describe();
\* let foo = describe('', () => { it('', ...); });
TestModules ==
    { <<TestCall(describe, <<TestCall(it, <<>>, <<>>), TestCall(it, <<>>, <<>>)>>, <<>>)>>,
      <<TestCall(suite, <<TestCall(context, <<TestCall(test, <<>>, <<PlainComment>>)>>, <<>>)>>,
                 <<>>)>>,
      <<TestCall(it, <<>>, <<>>), ExpressionStatement(CallExpression(foo, <<>>), <<>>)>>,
      <<ExpressionStatement(CallExpression(describe, <<>>), <<>>), TestCall(it, <<>>, <<>>)>>,
      <<ExpressionStatement(CallExpression(describe, <<>>), <<PlainComment>>)>>,
      <<LetInit(foo, CallExpression(describe,
                         <<StringLiteral, ArrowFunctionWith(<<TestCall(it, <<>>, <<>>)>>)>>),
                <<>>)>> }

\* An id source that hands out 0 every time.  C30 is tested against it.
_getUniqueId_same(sequence) == 0

\* TestDocGenerator._getUniqueId: the id that is returned; _sequence is one
\* more afterwards.
_getUniqueId(sequence) == sequence

\* expression._tjsdocTestName = expression.callee.name + uniqueId
TestName(callee, uniqueId) == [callee |-> callee, id |-> uniqueId]

\* The switch of TestDocGenerator._pushForMocha: whether the node is a
\* statement whose expression calls one of the Mocha functions.
isMochaCall(node) ==
    /\ node.type = "ExpressionStatement"
    /\ expressionOf(node).type = "CallExpression"
    /\ expressionOf(node).name \in MochaNames

\* The loop of TestDoc._$memberof: the test names met on the way up from the
\* call at p, nearest first.
testChain(a, par, names, p) ==
    LET chain == ParentChain(par, p)
        named == SelectSeq(chain, LAMBDA q : q \in DOMAIN names)
    IN  [i \in 1..Len(named) |-> TestName(NodeAt(a, named[i]).name, names[named[i]])]

\* `${filePath}~${chain.reverse().join('.')}`
Memberof(path, chain) == [filePath |-> path, chain |-> Reverse(chain)]

\* Whether TestDoc.create throws: without a description tag TestDoc._$desc
\* reads `arguments[0].value`, a TypeError for a call without arguments.
testDocThrows(node, tags) == FindTagValue(tags, "@desc") = null /\ Len(node.children) = 0

\* TestDoc.create for the call expression at p.
TestDoc_create(id, modID, a, path, p, tags, par, names) ==
    LET node == NodeAt(a, p)
        chain == testChain(a, par, names, p)
    IN  [id          |-> id,
         moduleID    |-> modID,
         category    |-> "Test",
         kind        |-> IF node.name \in {suite, context, describe}
                         THEN "testDescribe" ELSE "testIt",
         name        |-> TestName(node.name, names[p]),
         testId      |-> names[p],
         filePath    |-> path,
         memberof    |-> IF Len(chain) > 0 THEN Memberof(path, chain) ELSE path,
         testDepth   |-> Len(chain),
         description |-> IF FindTagValue(tags, "@desc") # null
                         THEN FindTagValue(tags, "@desc") ELSE node.children[1].name,
         export      |-> FALSE,
         importStyle |-> null,
         ignore      |-> FALSE,
         type        |-> null,
         undocument  |-> FALSE,
         node        |-> p,
         virtual     |-> FALSE]

\* TestDocGenerator.resetAndTraverse up to the call of the walker: the statics
\* are set and the test file doc is inserted.  The AST is a new object: none
\* of its nodes carries a marker, a parent or a test name.
TestDocGenerator_begin ==
    /\ NextFileDue
    /\ \E body \in TestModules, option \in HandleErrors :
           /\ source' = File(body)
           /\ ast' = File(body)
           /\ handleError' = defaultHandleError(option)
           /\ walk' = PreOrder(File(body), RootPath)
           /\ handed' = Append(handed, Handed(File(body), option, 0))
    /\ filePath' = <<FileNames[FilesBegun + 1]>>
    /\ call' = Len(handed) + 1
    /\ moduleID' = nextID
    /\ docDB' = Append(docDB, createTestDoc(nextID, nextID, <<FileNames[FilesBegun + 1]>>,
                                            "ModuleTestFile", RootPath))
    /\ nextID' = incrementID(nextID)
    /\ log' = Append(log, Event("insert", RootPath, nextID))
    /\ already' = {}
    /\ parent' = <<>>
    /\ _tjsdocTestName' = <<>>
    /\ pc' = "test"
    /\ UNCHANGED <<_ast, exportNodesPass, exportIdx, invalid, suspended, _sequence>>

\* The enterNode callback of TestDocGenerator._traverse on the next node of
\* the walk: push and _pushForMocha within the try / catch.
TestDocGenerator_enterNode ==
    /\ pc = "test"
    /\ walk # <<>>
    /\ LET p == Head(walk)
           node == NodeAt(ast, p)
           e == p \o <<1>>
           tags == IF Len(node.leadingComments) > 0
                   THEN parseComment(node.leadingComments[Len(node.leadingComments)])
                   ELSE <<>>
           uniqueId == _getUniqueId(_sequence)
           parent1 == IF p = RootPath THEN parent ELSE defineParent(parent, p, ParentPath(p))
           parent2 == defineParent(parent1, e, p)
           names == [q \in DOMAIN _tjsdocTestName \cup {e} |->
                        IF q = e THEN uniqueId ELSE _tjsdocTestName[q]]
       IN  IF p \in already
           THEN /\ walk' = Tail(walk)
                /\ log' = Append(log, Event("push", p, 0))
                /\ UNCHANGED <<pc, docDB, nextID, already, parent, invalid, _sequence,
                               _tjsdocTestName>>
           ELSE IF ~isMochaCall(node)
           THEN /\ walk' = Tail(walk)
                /\ already' = already \cup {p}
                /\ parent' = parent1
                /\ log' = log \o <<Event("push", p, 0), Event("mark", p, 0)>>
                /\ UNCHANGED <<pc, docDB, nextID, invalid, _sequence, _tjsdocTestName>>
           ELSE /\ already' = already \cup {p, e}
                /\ parent' = parent2
                /\ _sequence' = uniqueId + 1
                /\ _tjsdocTestName' = names
                /\ nextID' = incrementID(nextID)
                /\ IF ~testDocThrows(NodeAt(ast, e), tags)
                   THEN /\ docDB' = Append(docDB, TestDoc_create(nextID, moduleID, ast, filePath,
                                                                  e, tags, parent2, names))
                        /\ walk' = Tail(walk)
                        /\ log' = log \o <<Event("push", p, 0), Event("mark", p, 0),
                                            Event("insert", p, nextID)>>
                        /\ UNCHANGED <<pc, invalid>>
                   ELSE IF onFatalError(handleError) = "log"
                   THEN /\ walk' = Tail(walk)
                        /\ invalid' = Append(invalid, InvalidCode(filePath, p))
                        /\ log' = log \o <<Event("push", p, 0), Event("mark", p, 0),
                                            Event("invalid", p, 0)>>
                        /\ UNCHANGED <<pc, docDB>>
                   ELSE /\ walk' = <<>>
                        /\ pc' = "thrown"
                        /\ log' = log \o <<Event("push", p, 0), Event("mark", p, 0),
                                            Event("throw", p, 0)>>
                        /\ UNCHANGED <<docDB, invalid>>
    /\ UNCHANGED <<source, ast, _ast, filePath, handleError, moduleID, exportNodesPass,
                   exportIdx, call, suspended, handed>>

\* The walker has returned, and with it _traverse and resetAndTraverse: the
\* statics stay as they are.
TestDocGenerator_return ==
    /\ pc = "test"
    /\ walk = <<>>
    /\ pc' = "done"
    /\ UNCHANGED <<source, ast, _ast, filePath, handleError, moduleID, docDB, nextID,
                   exportNodesPass, walk, already, parent, exportIdx, invalid, call,
                   suspended, _sequence, _tjsdocTestName, handed, log>>

NextTests ==
    \/ TestDocGenerator_begin
    \/ TestDocGenerator_enterNode
    \/ TestDocGenerator_return

SpecTests == Init /\ [][NextTests]_vars

---------------------------------------------------------------------------
(* Re-entrant calls.  resetAndTraverse runs to its end without a           *)
(* suspension point, so a second run can only start while a first is in    *)
(* progress from a callback the first one calls inside the try block of    *)
(* enterNode: the docFilter, or a handler on the eventbus.  The callback   *)
(* is taken to call when the visitor is entered for a node, and the nested *)
(* call runs on the same DocDB with the next path of the project.          *)

\* The modules of these calls: a class with its deferred export, a class and
\* `export let foo = new Foo();`, and a declaration for which the doc
\* constructor throws, followed by a deferred export.
CallModules ==
    { <<ClassDeclaration(Foo, <<PlainComment>>), ExportDefaultDeclaration(Identifier(Foo), <<>>)>>,
      <<ClassDeclaration(Foo, <<IgnoreComment>>), ExportNamedDeclaration(LetNew(<<>>), <<>>, <<>>)>>,
      <<LetEmptyPattern, ExportDefaultDeclaration(Identifier(foo), <<>>)>> }

\* The paths of the files of these calls, in the order the calls are made.
CallNames == <<"a.js", "b.js", "c.js", "d.js", "e.js">>

\* The caller hands the next file to resetAndTraverse when no call is running.
resetAndTraverseCall ==
    /\ pc \in {"idle", "done", "thrown"}
    /\ suspended = <<>>
    /\ FilesBegun < MaxCalls
    /\ UNCHANGED suspended
    /\ \E body \in CallModules, option \in HandleErrors :
           beginTraverse(body, <<CallNames[FilesBegun + 1]>>, option)

\* A callback of the running call hands the next file to resetAndTraverse.
resetAndTraverseNested ==
    /\ pc = "traverse"
    /\ walk # <<>>
    /\ Len(suspended) < MaxNesting
    /\ FilesBegun < MaxCalls
    /\ suspended' = <<Suspended>> \o suspended
    /\ \E body \in CallModules, option \in HandleErrors :
           beginTraverse(body, <<CallNames[FilesBegun + 1]>>, option)

\* A nested call has thrown: the error leaves the callback and is caught by
\* the catch block of the enterNode that called it, which looks at
\* this._handleError as it is now.
catchNested ==
    /\ pc = "thrown"
    /\ suspended # <<>>
    /\ LET outer == Head(suspended)
           p == Head(outer.walk)
       IN  /\ source' = outer.source
           /\ ast' = outer.ast
           /\ already' = outer.already
           /\ parent' = outer.parent
           /\ call' = outer.call
           /\ suspended' = Tail(suspended)
           /\ IF onFatalError(handleError) = "log"
              THEN /\ walk' = Tail(outer.walk)
                   /\ invalid' = Append(invalid, InvalidCode(outer.filePath, p))
                   /\ log' = Append(log, Event("invalid", p, 0))
                   /\ pc' = "traverse"
              ELSE IF onFatalError(handleError) = "throw"
              THEN /\ walk' = <<>>
                   /\ pc' = "thrown"
                   /\ log' = Append(log, Event("throw", p, 0))
                   /\ UNCHANGED invalid
              ELSE /\ walk' = Tail(outer.walk)
                   /\ pc' = "traverse"
                   /\ UNCHANGED <<invalid, log>>
    /\ UNCHANGED <<_ast, filePath, handleError, moduleID, docDB, nextID, exportNodesPass,
                   exportIdx, _sequence, _tjsdocTestName, handed>>

NextNested ==
    \/ resetAndTraverseCall
    \/ resetAndTraverseNested
    \/ catchNested
    \/ enterNode
    \/ _processExports
    \/ resetStatics

SpecNested == Init /\ [][NextNested]_vars

---------------------------------------------------------------------------
(* Properties.  The history `log` holds, in order: "insert" (a doc object  *)
(* was inserted), "push" (the visitor passed a node to _push), "mark" (a   *)
(* node got the visited marker), "defer" (the visitor queued a node and    *)
(* returned null), and for the second pass "reconcile" / "ignored" (a turn *)
(* of the loop), "find" (a DocDB query) and "mutate" (a write to a found   *)
(* doc object).  Every event names the node on whose behalf it happened.   *)

LogIdx == 1..Len(log)
SecondPassKinds == {"reconcile", "ignored", "find", "mutate"}
SecondPassBegun == \E i \in LogIdx : log[i].kind \in SecondPassKinds

Range(seq) == {seq[i] : i \in 1..Len(seq)}

\* The nodes on whose behalf the history holds an event of one of the kinds.
NodesWith(kinds) == Range([i \in LogIdx |-> IF log[i].kind \in kinds THEN log[i].by ELSE <<0>>]) \ {<<0>>}

\* The nodes the visitor has deferred so far in this run, those it has been
\* called with, and the nodes of the module.
Deferred == NodesWith({"defer"})
Entered == NodesWith({"push", "defer"})
SourceNodes == Range(PreOrder(source, RootPath))

\* C1: the two passes are strictly sequential.  No second-pass step (a DocDB
\* query, a write to a found doc object, a turn of the reconciliation loop)
\* happens while the walker still has a node to visit; no node is visited after
\* one happened; and every insertion that follows one is made on behalf of a
\* deferred export node, so all first-pass insertions precede the second pass.
C1_PassesSequential ==
    LET deferred == Deferred
    IN  /\ SecondPassBegun => walk = <<>>
        /\ \A i \in LogIdx :
               log[i].kind \in SecondPassKinds =>
                   \A j \in (i + 1)..Len(log) :
                       /\ log[j].kind \notin {"push", "defer", "mark"}
                       /\ log[j].kind = "insert" => log[j].by \in deferred

\* A finished run with a first-pass insertion for a node followed by a second-pass mutation.
C1_Witness ==
    /\ pc = "done"
    /\ \E i, j \in LogIdx :
           /\ i < j
           /\ log[i].kind = "insert" /\ log[i].by \notin Deferred \cup {RootPath}
           /\ log[j].kind = "mutate"

\* Whether a top-level statement of the module is a class declaration of that name.
ClassStatementNamed(name) ==
    \E i \in 1..Len(programBody(source)) :
        programBody(source)[i].type = "ClassDeclaration" /\ programBody(source)[i].name = name

\* The three cases of deferral, read off the node.
DeferralCaseA(n) ==
    n.type = "ExportDefaultDeclaration" /\ n.children[1].type \in {"Identifier", "NewExpression"}
DeferralCaseB(n) ==
    n.type = "ExportNamedDeclaration" /\ \E i \in 1..Len(n.children) : n.children[i].type = "ExportSpecifier"
DeferralCaseC(n) ==
    /\ n.type = "ExportNamedDeclaration"
    /\ \E i \in 1..Len(n.children) :
           /\ n.children[i].type = "VariableDeclaration"
           /\ \E k \in 1..Len(n.children[i].children) :
                  LET d == n.children[i].children[k]
                  IN  /\ Len(d.children) > 0
                      /\ d.children[1].type = "NewExpression"
                      /\ d.children[1].children[1].type = "Identifier"
                      /\ ClassStatementNamed(d.children[1].children[1].name)

\* C2: a visited node is appended to the queue of deferred export nodes if and
\* only if it is (a) a default export of an identifier or of a `new` expression,
\* (b) a named export with a specifier, or (c) a named export of an inline
\* variable declaration with a declarator initialised by `new C()` where the class
\* lookup finds C in the module, that is, C is a class declaration statement of the
\* module body.
C2_DeferralDecision ==
    /\ \A i \in LogIdx :
           log[i].kind \in {"push", "defer"} =>
               LET n == NodeAt(source, log[i].by)
               IN  log[i].kind = "defer" <=>
                       (DeferralCaseA(n) \/ DeferralCaseB(n) \/ DeferralCaseC(n))
    /\ pc = "traverse" => Range(exportNodesPass) = Deferred

\* A finished run that deferred an inline variable export under case (c) alone.
C2_Witness ==
    /\ pc = "done"
    /\ \E p \in Deferred :
           LET n == NodeAt(source, p)
           IN  DeferralCaseC(n) /\ ~DeferralCaseA(n) /\ ~DeferralCaseB(n)

\* C3: a deferred export node contributes nothing to the first pass.  Neither it
\* nor a descendant is ever passed to _push or marked visited, no doc object made
\* from them is in the DocDB before the second pass begins, and the walker skips
\* a node only below a deferred node.
C3_DeferredContributesNothing ==
    LET deferred == Deferred
        entered == Entered
        waiting == Range(walk)
    IN  /\ \A p \in deferred :
               /\ \A i \in LogIdx : IsPrefix(p, log[i].by) => log[i].kind \notin {"push", "mark"}
               /\ \A q \in already : ~IsPrefix(p, q)
               /\ ~SecondPassBegun =>
                      /\ \A i \in 1..Len(docDB) : ~IsPrefix(p, docDB[i].node)
                      /\ \A i \in LogIdx : log[i].kind = "insert" => ~IsPrefix(p, log[i].by)
        /\ pc = "traverse" =>
               \A q \in SourceNodes \ (entered \cup waiting) :
                   \E p \in deferred : p # q /\ IsPrefix(p, q)

\* A finished run that deferred an inline variable export, whose declaration would
\* have produced a doc object had it been visited.
C3_Witness ==
    /\ pc = "done"
    /\ \E p \in Deferred :
           /\ declarationOf(NodeAt(source, p)).type = "VariableDeclaration"
           /\ p \o <<1>> \notin Entered

\* Whether an event belongs to the second pass, given the deferred nodes.
SecondPassEvent(i, deferred) ==
    \/ log[i].kind \in SecondPassKinds
    \/ log[i].kind = "insert" /\ log[i].by \in deferred

\* The position in the history at which the node was deferred.
DeferredAt(p) == CHOOSE i \in LogIdx : log[i].kind = "defer" /\ log[i].by = p

\* Document order of two nodes (pre-order of their paths).
RECURSIVE Precedes(_, _)
Precedes(p, q) ==
    IF p = <<>> THEN q # <<>>
    ELSE IF q = <<>> THEN FALSE
    ELSE IF Head(p) = Head(q) THEN Precedes(Tail(p), Tail(q))
    ELSE Head(p) < Head(q)

\* C4: the second pass goes through the deferred export nodes in the order in
\* which they were deferred, which is their order in the source: nodes are
\* deferred in document order, and of two second-pass events the earlier never
\* belongs to the node deferred later.
C4_ReconciledInDeferralOrder ==
    LET deferred == Deferred
    IN  /\ \A p, q \in deferred : DeferredAt(p) < DeferredAt(q) => Precedes(p, q)
        /\ \A i \in LogIdx :
               SecondPassEvent(i, deferred) =>
                   \A j \in (i + 1)..Len(log) :
                       SecondPassEvent(j, deferred) =>
                           DeferredAt(log[i].by) <= DeferredAt(log[j].by)

\* A finished run in which two deferred export nodes each changed a doc object.
C4_Witness ==
    /\ pc = "done"
    /\ \E p, q \in Deferred :
           /\ p # q
           /\ \E i, j \in LogIdx :
                  /\ log[i].kind = "mutate" /\ log[i].by = p
                  /\ log[j].kind = "mutate" /\ log[j].by = q

\* Whether the comment of an export statement (its last leading comment) has @ignore.
IgnoredExport(n) ==
    /\ n.leadingComments # <<>>
    /\ \E k \in 1..Len(n.leadingComments[Len(n.leadingComments)].tags) :
           n.leadingComments[Len(n.leadingComments)].tags[k].tagName = "@ignore"

\* How many events of the kinds the history holds for the node.
Count(kinds, p) == Cardinality({i \in LogIdx : log[i].kind \in kinds /\ log[i].by = p})

\* C5: within one run every deferred export node is reconciled exactly once.
\* The queue never holds a node twice, no node is deferred twice, the loop of
\* _processExports takes at most one turn per node and only for deferred nodes,
\* and when the run has returned it has taken exactly one turn for every deferred
\* node, a reconciling one unless the export statement carries @ignore.
C5_ReconciledExactlyOnce ==
    LET deferred == Deferred
    IN  /\ \A i, j \in 1..Len(exportNodesPass) : i # j => exportNodesPass[i] # exportNodesPass[j]
        /\ exportIdx <= Len(exportNodesPass)
        /\ \A i \in LogIdx : log[i].kind \in {"reconcile", "ignored"} => log[i].by \in deferred
        /\ \A p \in deferred :
               /\ Count({"defer"}, p) = 1
               /\ Count({"reconcile", "ignored"}, p) <= 1
               /\ pc = "done" =>
                      /\ Count({"reconcile", "ignored"}, p) = 1
                      /\ Count({"reconcile"}, p) = 1 <=> ~IgnoredExport(NodeAt(source, p))

\* A finished run with two deferred export nodes, one of them reconciled.
C5_Witness ==
    /\ pc = "done"
    /\ Cardinality(Deferred) >= 2
    /\ \E p \in Deferred : Count({"reconcile"}, p) = 1

\* The turn of the loop of _processExports for an export statement with @ignore
\* leaves the DocDB, the ID counter and the AST as they are.
C6_IgnoredTurn ==
    ( /\ pc = "traverse"
      /\ walk = <<>>
      /\ exportIdx < Len(exportNodesPass)
      /\ exportIdx' = exportIdx + 1
      /\ IgnoredExport(NodeAt(source, exportNodesPass[exportIdx + 1])) )
    => (docDB' = docDB /\ nextID' = nextID /\ ast' = ast)

\* Nothing but its deferral and its skipped turn is recorded for such a statement.
C6_IgnoredEvents ==
    \A i \in LogIdx :
        (log[i].by # RootPath /\ IgnoredExport(NodeAt(source, log[i].by))
            /\ IsExportType(NodeAt(source, log[i].by).type) /\ log[i].by \in Deferred)
        => log[i].kind \in {"defer", "ignored"}

\* C6: a deferred export node whose comment carries @ignore never triggers
\* reconciliation: its turn of the second pass queries nothing, leaves every doc
\* object of the DocDB with the field values it had and inserts no doc object.
C6_IgnoredExportNotReconciled == [][C6_IgnoredTurn]_vars /\ []C6_IgnoredEvents

\* A finished run whose @ignore'd `export default Foo` left the class doc of Foo
\* un-exported, as the first pass made it.
C6_Witness ==
    /\ pc = "done"
    /\ \E p \in Deferred :
           /\ IgnoredExport(NodeAt(source, p))
           /\ declarationOf(NodeAt(source, p)).name = Foo
           /\ Count({"ignored"}, p) = 1
    /\ \E i \in 1..Len(docDB) :
           docDB[i].category = "ModuleClass" /\ docDB[i].name = Foo /\ ~docDB[i].export

\* The doc objects of a category and name, by position in the DocDB.
DocsOf(category, name) ==
    {i \in 1..Len(docDB) : docDB[i].category = category /\ docDB[i].name = name}

\* The statements of the module that is or was processed.
Body == IF pc = "idle" THEN <<>> ELSE programBody(source)
IsClassFoo(n) == n.type = "ClassDeclaration" /\ n.name = Foo

\* `export default class Foo {}`
IsDirectDefaultClass ==
    /\ Len(Body) = 1
    /\ Body[1].type = "ExportDefaultDeclaration"
    /\ IsClassFoo(Body[1].children[1])

\* `class Foo {}` followed by `export default Foo;`
IsSeparatedDefaultClass ==
    /\ Len(Body) = 2
    /\ IsClassFoo(Body[1])
    /\ Body[2].type = "ExportDefaultDeclaration"
    /\ Body[2].children[1].type = "Identifier" /\ Body[2].children[1].name = Foo
    /\ ~IgnoredExport(Body[2])

\* The one ModuleClass doc named Foo is exported with the given import style.
FooClassDoc(importStyle) ==
    /\ Cardinality(DocsOf("ModuleClass", Foo)) = 1
    /\ \A i \in DocsOf("ModuleClass", Foo) : docDB[i].export /\ docDB[i].importStyle = importStyle

\* C7 as stated: both forms end with an exported ModuleClass doc named Foo, the
\* direct export with importStyle null and the separated export with
\* importStyle "Foo".
C7_AsStated ==
    pc = "done" =>
        /\ IsDirectDefaultClass => FooClassDoc(null)
        /\ IsSeparatedDefaultClass => FooClassDoc(Foo)

\* C7 (amended): both forms end with one ModuleClass doc named Foo with
\* export=true and the same importStyle "Foo"; the first pass gives it to the
\* direct export, the second pass to the separated export.
C7_BothImportStyleFoo ==
    pc = "done" =>
        /\ IsDirectDefaultClass => FooClassDoc(Foo) /\ ~SecondPassBegun
        /\ IsSeparatedDefaultClass =>
               /\ FooClassDoc(Foo)
               /\ \E i \in LogIdx : log[i].kind = "mutate" /\ log[i].by = StmtPath(2)

\* A finished run of the direct form whose class doc has importStyle "Foo".
C7_Witness == pc = "done" /\ IsDirectDefaultClass /\ FooClassDoc(Foo)

\* `class Foo {}` followed by `export default new Foo();`
IsDefaultNewFoo ==
    /\ Len(Body) = 2
    /\ IsClassFoo(Body[1])
    /\ Body[2].type = "ExportDefaultDeclaration"
    /\ Body[2].children[1].type = "NewExpression"
    /\ Body[2].children[1].children[1].name = Foo
    /\ ~IgnoredExport(Body[2])

\* C8: for `class Foo {}` followed by `export default new Foo();` the run ends
\* with a ModuleClass doc for Foo with export=true and importStyle=null, and
\* exactly one ModuleVariable doc named foo, synthesized, with type
\* `<filePath>~Foo`, export=true and importStyle "foo"; there is no other
\* variable doc.
C8_DefaultNewExpression ==
    (pc = "done" /\ IsDefaultNewFoo) =>
        /\ FooClassDoc(null)
        /\ Cardinality(DocsOf("ModuleVariable", foo)) = 1
        /\ \A i \in 1..Len(docDB) :
               docDB[i].category = "ModuleVariable" =>
                   /\ docDB[i].name = <<"f", "o", "o">>
                   /\ docDB[i].virtual
                   /\ docDB[i].type = docDB[i].filePath \o <<"~", "F", "o", "o">>
                   /\ docDB[i].export
                   /\ docDB[i].importStyle = <<"f", "o", "o">>

\* A finished run of that module with a synthesized variable doc.
C8_Witness ==
    /\ pc = "done" /\ IsDefaultNewFoo
    /\ \E i \in DocsOf("ModuleVariable", foo) : docDB[i].virtual

\* `class Foo {}`, `let foo = new Foo();`, `export {foo};`
IsNamedInstance ==
    /\ Len(Body) = 3
    /\ IsClassFoo(Body[1])
    /\ Body[2] = LetNew(<<>>)
    /\ Body[3].type = "ExportNamedDeclaration"
    /\ Len(Body[3].children) = 1
    /\ Body[3].children[1].type = "ExportSpecifier" /\ Body[3].children[1].name = foo
    /\ ~IgnoredExport(Body[3])

IsExportFunctionFoo(n) ==
    /\ n.type = "ExportNamedDeclaration"
    /\ Len(n.children) = 1
    /\ n.children[1].type = "FunctionDeclaration" /\ n.children[1].name = foo

\* Whether a deferred export statement of the module refers to the name.
DeferredExportNames(name) ==
    \E p \in Deferred :
        \E i \in 1..Len(NodeAt(source, p).children) :
            LET c == NodeAt(source, p).children[i]
            IN  \/ c.name = name
                \/ c.type = "VariableDeclaration" /\ c.children[1].name = name

---------------------------------------------------------------------------
(* Properties of the runs of a project.  The history holds the events of   *)
(* all runs; a run begins with the insertion of its file doc, made on      *)
(* behalf of the File node.  A caught error adds "invalid", one that is    *)
(* thrown again "throw".                                                   *)

\* The place in the history where the latest run began, 0 before the first.
RunStart ==
    LET starts == {i \in LogIdx : log[i].kind = "insert" /\ log[i].by = RootPath}
    IN  IF starts = {} THEN 0 ELSE CHOOSE i \in starts : \A j \in starts : j <= i

\* The places of the history that belong to the latest run.
RunIdx == IF RunStart = 0 THEN {} ELSE RunStart..Len(log)

\* The nodes on whose behalf the latest run holds an event of one of the kinds.
RunNodesWith(kinds) == {log[i].by : i \in {j \in RunIdx : log[j].kind \in kinds}}

\* The doc objects of the latest run: those that carry its module ID.
RunDocs ==
    IF RunStart = 0 THEN {}
    ELSE {docDB[i] : i \in {j \in 1..Len(docDB) : docDB[j].moduleID = log[RunStart].doc}}

\* Whether a run of DocGenerator is in progress or was the latest to end.
InDocRun == pc # "idle" /\ RunStart # 0 /\ \E d \in RunDocs : d.category = "ModuleFile"

\* The nodes of the file of that run.
FileNodes == IF InDocRun THEN Range(PreOrder(source, RootPath)) ELSE {}

\* The nearest enclosing class declaration or class expression of the node at p,
\* the File node when there is none.
RECURSIVE EnclosingClass(_)
EnclosingClass(p) ==
    IF p = RootPath THEN RootPath
    ELSE IF NodeAt(source, ParentPath(p)).type \in {"ClassDeclaration", "ClassExpression"}
    THEN ParentPath(p)
    ELSE EnclosingClass(ParentPath(p))

IsClassMember(p) == NodeAt(source, p).type \in {"ClassMethod", "ClassProperty"}

\* Whether the run has a doc object of one of the categories for the node at p.
HasDoc(p, categories) == \E d \in RunDocs : d.node = p /\ d.category \in categories /\ ~d.virtual

\* C11: every class method or property the walker has passed to _push has a
\* doc object if and only if its nearest enclosing class declaration or
\* expression was classified as ModuleClass (has a ModuleClass doc object) in
\* the same run.
C11_AsStated ==
    \A p \in {q \in FileNodes : IsClassMember(q)} :
        p \in RunNodesWith({"push"}) =>
            (HasDoc(p, {"ClassMethod", "ClassProperty"})
                <=> HasDoc(EnclosingClass(p), {"ModuleClass"}))

\* The comments _push hands to _traverseComments for the node at p, and the
\* node they are traversed for: for an export declaration its declaration.
CommentsOf(p) ==
    LET node == NodeAt(source, p)
    IN  IF IsExportType(node.type)
        THEN declarationOf(node).leadingComments \o node.leadingComments
        ELSE node.leadingComments
TargetOf(p) == IF IsExportType(NodeAt(source, p).type) THEN p \o <<1>> ELSE p

\* The nodes of the latest run that went through _push and have no doc comment.
Undocumented ==
    {p \in RunNodesWith({"mark"}) : SelectSeq(CommentsOf(p), isDocComment) = <<>>}

\* The insertions the latest run made on behalf of the node at p.
InsertsBy(p) == {i \in RunIdx : log[i].kind = "insert" /\ log[i].by = p}

\* The doc objects of the latest run with one of the IDs.
DocsWithID(ids) == {d \in RunDocs : d.id \in ids}

\* Whether exactly one doc object was inserted on behalf of the node at p, and
\* it carries the placeholder marker.
OnePlaceholderDoc(p) ==
    /\ Cardinality(InsertsBy(p)) = 1
    /\ \A d \in DocsWithID({log[i].doc : i \in InsertsBy(p)}) : d.undocument /\ d.node = TargetOf(p)

\* What the classifier makes of the node with the tags of the placeholder.
PlaceholderType(p) ==
    _decideType(source, parent, NodeAt(source, TargetOf(p)), TargetOf(p),
                parseComment(UndocumentComment))

\* C12 as stated: every node that went through the first pass without a doc
\* comment has exactly one doc object, which carries the placeholder marker.
C12_AsStated == InDocRun => \A p \in Undocumented : OnePlaceholderDoc(p)

\* C12: a node that went through the first pass without a doc comment has
\* exactly one doc object, carrying the placeholder marker, when the classifier
\* gives the node a type and the doc constructor does not throw; it has none
\* otherwise.
C12_PlaceholderDocIfClassified ==
    InDocRun =>
        \A p \in Undocumented :
            LET result == PlaceholderType(p)
            IN  IF result.type # "#none" /\ ~createThrows(result.type, NodeAt(source, result.node))
                THEN OnePlaceholderDoc(p)
                ELSE InsertsBy(p) = {}

\* A finished run with an undocumented function that got its placeholder doc,
\* through an export declaration, and the undocumented Program node that got none.
C12_Witness ==
    /\ pc = "done"
    /\ InDocRun
    /\ \E p \in Undocumented :
           /\ IsExportType(NodeAt(source, p).type)
           /\ PlaceholderType(p).type = "ModuleFunction"
           /\ OnePlaceholderDoc(p)
    /\ \E p \in Undocumented : NodeAt(source, p).type = "Program" /\ InsertsBy(p) = {}

\* The doc object without the three fields an export sets.
ExceptExportFields(d) == [d EXCEPT !.export = FALSE, !.importStyle = null, !.ignore = FALSE]

\* Whether the step is a turn of the reconciliation loop, and its export node.
ReconcileTurn == exportIdx' = exportIdx + 1
TurnNode == exportNodesPass[exportIdx + 1]

\* The places of the doc objects the step has inserted.
Inserted == (Len(docDB) + 1)..Len(docDB')

\* A turn changes nothing but the export fields of the class and function doc
\* objects it found, and every doc object it inserts is a synthesized variable
\* doc made for the export node, for a variable that had no variable doc.
TurnInsertsOnlyNewVariables ==
    /\ Len(docDB') >= Len(docDB)
    /\ \A i \in 1..Len(docDB) :
           docDB[i].category # "ModuleVariable" =>
               ExceptExportFields(docDB'[i]) = ExceptExportFields(docDB[i])
    /\ \A i \in Inserted :
           /\ docDB'[i].category = "ModuleVariable"
           /\ docDB'[i].virtual
           /\ docDB'[i].node = TurnNode
           /\ find(SubSeq(docDB', 1, i - 1), "ModuleVariable", docDB'[i].name,
                   docDB'[i].filePath) = <<>>

\* C13 as stated: a turn of the reconciliation loop leaves the class and
\* function doc objects alone but for export, importStyle and ignore, and
\* inserts at most one doc object, a variable doc for a variable that had none.
C13_AsStated ==
    [][ReconcileTurn => (TurnInsertsOnlyNewVariables /\ Len(docDB') <= Len(docDB) + 1)]_vars

\* C13: a turn of the reconciliation loop leaves the class and function doc
\* objects alone but for export, importStyle and ignore; what it inserts is one
\* synthesized variable doc for each variable the export declares with a `new`
\* initialiser (or names, or makes up) that had no variable doc before.
C13_ReconcileInsertsOnlyNewVariables ==
    [][ReconcileTurn => TurnInsertsOnlyNewVariables]_vars

\* A finished run whose export of two instances inserted a doc object for each
\* and set the export fields of the class doc it found, which was inserted in
\* the first pass.
C13_Witness ==
    /\ pc = "done"
    /\ InDocRun
    /\ \E p \in RunNodesWith({"reconcile"}) :
           /\ \E i, j \in InsertsBy(p) : i # j
           /\ \E i \in RunIdx : \E d \in RunDocs :
                  /\ log[i].kind = "mutate" /\ log[i].by = p /\ log[i].doc = d.id
                  /\ d.category = "ModuleClass" /\ d.export /\ ~d.virtual

\* C14: whatever files the main and the test generator were handed, no two doc
\* objects of the DocDB have the same ID; the doc objects of one file were
\* inserted in strictly increasing order of their IDs; and the first of them is
\* the doc object of the file, whose ID is the module ID of the others.
C14_UniqueIncreasingIDs ==
    LET idx == 1..Len(docDB)
    IN  /\ \A i, j \in idx : i < j => docDB[i].id # docDB[j].id
        /\ \A i, j \in idx :
               (i < j /\ docDB[i].moduleID = docDB[j].moduleID) => docDB[i].id < docDB[j].id
        /\ \A j \in idx :
               \E i \in 1..j :
                   /\ IsFileDoc(docDB[i])
                   /\ docDB[i].id = docDB[j].moduleID
                   /\ \A k \in 1..(i - 1) : docDB[k].moduleID # docDB[j].moduleID

\* A test file with a test doc and a module whose second pass inserted a doc
\* object, generated one after the other.
C14_Witness ==
    /\ pc = "done"
    /\ FilesBegun >= 2
    /\ \E i \in 1..Len(docDB) : docDB[i].category = "Test"
    /\ \E i \in 1..Len(docDB) : docDB[i].category = "ModuleVariable" /\ docDB[i].virtual

\* The file path of the latest run, and the nodes of that run that were
\* deferred, that the visitor was called with, and that a deferred export
\* keeps the walker from.
RunFilePath == (CHOOSE d \in RunDocs : d.category = "ModuleFile").filePath
RunDeferred == RunNodesWith({"defer"})
RunEntered == RunNodesWith({"push", "defer"})
BelowDeferred(q) == \E d \in RunDeferred : d # q /\ IsPrefix(d, q)

\* The nodes of the latest run for which a caught error was logged.
RunInvalid == RunNodesWith({"invalid"})

\* Whether the doc constructor throws for the undocumented node at p.
ThrowsAt(p) ==
    LET result == PlaceholderType(p)
    IN  result.type # "#none" /\ createThrows(result.type, NodeAt(source, result.node))

\* The first visit that follows the place i of the history, 0 for none.
NextVisit(i) ==
    LET later == {j \in RunIdx : j > i /\ log[j].kind \in {"push", "defer"}}
    IN  IF later = {} THEN 0 ELSE CHOOSE j \in later : \A k \in later : j <= k

\* C15 as stated: after an error was caught and logged for a node, the walk
\* goes on with a sibling of the node, not with anything inside it.
C15_AsStated ==
    InDocRun =>
        \A i \in RunIdx :
            (log[i].kind = "invalid" /\ NextVisit(i) # 0) =>
                ~IsPrefix(log[i].by, log[NextVisit(i)].by)

\* C15: under the `log` policy a run never throws.  An error raised for a node
\* is handed to the invalid-code logger with the path of the file and the
\* node, and the node gets no doc object; the walk then goes on in its order
\* (no node but those below a deferred export is left out), and when the run
\* has returned every node was visited and every deferred export went through
\* the second pass.
C15_LogPolicyGoesOn ==
    InDocRun =>
        /\ handleError = "log" =>
               /\ pc # "thrown"
               /\ \A p \in Undocumented : ThrowsAt(p) => p \in RunInvalid
        /\ \A p \in RunInvalid :
               /\ \E k \in 1..Len(invalid) : invalid[k] = InvalidCode(RunFilePath, p)
               /\ InsertsBy(p) = {}
               /\ pc # "thrown"
        /\ (RunInvalid # {} /\ pc = "traverse") =>
               \A q \in FileNodes : q \in RunEntered \/ q \in Range(walk) \/ BelowDeferred(q)
        /\ (RunInvalid # {} /\ pc = "done") =>
               /\ \A q \in FileNodes : q \in RunEntered \/ BelowDeferred(q)
               /\ RunDeferred \subseteq RunNodesWith({"reconcile", "ignored"})

\* A run that has returned after an error was logged for one node: the class
\* that follows the node has its doc object, and the export that was deferred
\* before the node has set the export fields of that doc object.
C15_Witness ==
    /\ pc = "done"
    /\ InDocRun
    /\ \E p \in RunInvalid : \E d \in RunDocs :
           /\ d.category = "ModuleClass"
           /\ d.export
           /\ \E i, j \in RunIdx :
                  /\ log[i].kind = "invalid" /\ log[i].by = p
                  /\ log[j].kind = "insert" /\ log[j].doc = d.id /\ i < j

\* The place of the history where the latest run threw, 0 when it did not.
RunThrow ==
    LET throws == {i \in RunIdx : log[i].kind = "throw"}
    IN  IF throws = {} THEN 0 ELSE CHOOSE i \in throws : TRUE

\* C16: when the caller passed `throw` or no handleError at all, the first
\* error raised for a node leaves resetAndTraverse: the node is the last one
\* the visitor was called with, nothing was logged, no node that follows it in
\* the walk was visited, and no deferred export went through the second pass.
C16_ThrowPolicyAborts ==
    (InDocRun /\ handed[call].handleError \in {"throw", void0} /\ pc # "done") =>
        /\ RunInvalid = {}
        /\ (\E p \in Undocumented : ThrowsAt(p)) => pc = "thrown"
        /\ pc = "thrown" =>
               /\ RunThrow = Len(log)
               /\ ThrowsAt(log[RunThrow].by)
               /\ \A q \in RunEntered : q = log[RunThrow].by \/ ~ThrowsAt(q)
               /\ RunNodesWith(SecondPassKinds) = {}
               /\ exportIdx = 0

\* A run that was given no handleError and threw with a deferred export in the
\* queue and a class declaration that was not visited.
C16_Witness ==
    /\ pc = "thrown"
    /\ InDocRun
    /\ handed[call].handleError = void0
    /\ RunDeferred # {}
    /\ \E q \in FileNodes : NodeAt(source, q).type = "ClassDeclaration" /\ q \notin RunEntered

\* Whether the static scratch state of the generator is cleared.
StaticsCleared ==
    /\ exportNodesPass = <<>>
    /\ ~_ast
    /\ filePath = undefined
    /\ moduleID = NoModuleID

\* C17: when no run is in progress, because none has begun or the latest has
\* returned or thrown, the queue of deferred export nodes is empty and the
\* current AST, path resolver and module ID are cleared; and every export node
\* that goes through the second pass of a run was deferred in that run.
C17_AsStated ==
    /\ pc \in {"idle", "done", "thrown"} => StaticsCleared
    /\ RunNodesWith({"reconcile", "ignored"}) \subseteq RunDeferred

\* The doc objects a reconciled export node of the latest run found (and wrote
\* to) or inserted.
ResolvedBy(p) ==
    DocsWithID({log[i].doc : i \in {j \in RunIdx : log[j].kind \in {"mutate", "insert"}
                                                    /\ log[j].by = p}})

\* Whether the declaration the doc object was made for carries @ignore.
DeclaredIgnored(d) ==
    /\ ~d.virtual
    /\ \E i \in 1..Len(NodeAt(source, d.node).leadingComments) :
           HasTag(parseComment(NodeAt(source, d.node).leadingComments[i]), "@ignore")

\* C19: every doc object a reconciled export (one without @ignore) resolved to
\* is exported and not ignored, whatever the tags of its declaration.
C19_ExportOverridesIgnore ==
    InDocRun =>
        \A p \in RunNodesWith({"reconcile"}) :
            \A d \in ResolvedBy(p) : d.export /\ ~d.ignore

\* A finished run in which an export resolved to a class, a function or a
\* variable whose declaration carries @ignore.
C19_Witness ==
    /\ pc = "done"
    /\ InDocRun
    /\ \E p \in RunNodesWith({"reconcile"}) :
           \E d \in ResolvedBy(p) : DeclaredIgnored(d) /\ d.export /\ ~d.ignore

\* The module ID of the r-th file that was handed in, and whether its run has ended.
ModuleOf(r) == SelectSeq(docDB, IsFileDoc)[r].id
Ended(r) ==
    /\ \A i \in 1..Len(suspended) : suspended[i].call # r
    /\ ~(pc = "traverse" /\ call = r)

\* The export fields of the doc objects of the r-th file, by category and name.
ExportFields(r) ==
    {[category |-> docDB[i].category, name |-> docDB[i].name, export |-> docDB[i].export,
      importStyle |-> docDB[i].importStyle, ignore |-> docDB[i].ignore] :
        i \in {j \in 1..Len(docDB) : docDB[j].moduleID = ModuleOf(r) /\ ~IsFileDoc(docDB[j])}}

\* Whether the body is `class Foo {}` and one deferred export of Foo, in either order.
IsClassAndExportOfFoo(body) ==
    /\ Len(body) = 2
    /\ \E i, j \in 1..2 :
           /\ i # j
           /\ body[i].type = "ClassDeclaration" /\ body[i].name = Foo
           /\ body[j] \in ExportsOfFoo

\* The pairs of ended runs whose modules are a class and its export, and the
\* same two statements the other way round.
ReversedRuns ==
    {rs \in (1..Len(handed)) \X (1..Len(handed)) :
        /\ Ended(rs[1]) /\ Ended(rs[2])
        /\ handed[rs[1]].ast # NoNode /\ handed[rs[2]].ast # NoNode
        /\ IsClassAndExportOfFoo(programBody(handed[rs[1]].ast))
        /\ programBody(handed[rs[2]].ast) = Reverse(programBody(handed[rs[1]].ast))}

\* C20: a module of `class Foo {}` and one of `export default Foo;`,
\* `export default new Foo();`, `export {Foo};` ends with the same export,
\* importStyle and ignore fields of the doc object of Foo, and of the variable
\* doc that goes with it, whether the export stands before or behind the class.
C20_ExportOrderIndependent ==
    \A rs \in ReversedRuns : ExportFields(rs[1]) = ExportFields(rs[2])

\* Two runs on `class Foo {}` and `export default new Foo();` in the two orders,
\* both with an exported class doc and its variable doc.
C20_Witness ==
    \E rs \in ReversedRuns :
        /\ programBody(handed[rs[1]].ast)[1].type = "ClassDeclaration"
        /\ \E f \in ExportFields(rs[1]) : f.category = "ModuleClass" /\ f.export
        /\ \E f \in ExportFields(rs[2]) : f.category = "ModuleVariable" /\ f.export

\* A field that holds the path of the file, with the path taken out.
WithoutPath(value, path) ==
    IF value = path THEN <<"./">>
    ELSE IF Len(value) > Len(path) /\ SubSeq(value, 1, Len(path)) = path
    THEN <<"./">> \o SubSeq(value, Len(path) + 1, Len(value))
    ELSE value

\* The doc objects of the r-th file, the file doc among them: every field but
\* the ID, the module ID and the path of the file.
DocFields(r) ==
    {[category |-> docDB[i].category, name |-> WithoutPath(docDB[i].name, docDB[i].filePath),
      export |-> docDB[i].export, importStyle |-> docDB[i].importStyle,
      ignore |-> docDB[i].ignore, type |-> WithoutPath(docDB[i].type, docDB[i].filePath),
      description |-> docDB[i].description, undocument |-> docDB[i].undocument,
      node |-> docDB[i].node, virtual |-> docDB[i].virtual] :
        i \in {j \in 1..Len(docDB) : docDB[j].moduleID = ModuleOf(r)}}

\* The runs of the main generator that have ended, and whether a call of
\* resetAndTraverse was made while the r-th run was in progress.
EndedRuns == {r \in 1..Len(handed) : handed[r].ast # NoNode /\ Ended(r)}
Interrupted(r) == \E n \in 1..Len(handed) : handed[n].from = r

\* Whether two runs were handed the same module under the same error policy.
SameInput(r, s) ==
    /\ handed[r].ast = handed[s].ast
    /\ defaultHandleError(handed[r].handleError) = defaultHandleError(handed[s].handleError)

\* C18 as it is stated: a run produces the doc objects and export metadata
\* that a run on the same module and policy produces on its own, also when
\* another run started while it was in progress.
C18_AsStated ==
    \A r, s \in EndedRuns :
        (SameInput(r, s) /\ ~Interrupted(s) /\ handed[s].from = 0) => DocFields(r) = DocFields(s)

\* C18: runs that follow one another share nothing but the doc-ID counter, and
\* neither does a run that is nested in another: two ended runs on the same
\* module and policy, during neither of which a call of resetAndTraverse was
\* made, have the same doc objects up to IDs and the file path, whatever ran
\* or threw before them and whatever call they were made from.
C18_UninterruptedRunsAlike ==
    \A r, s \in EndedRuns :
        (SameInput(r, s) /\ ~Interrupted(r) /\ ~Interrupted(s)) => DocFields(r) = DocFields(s)

\* A class and its deferred export were generated twice, once from a callback
\* of a run in progress and once by a call of their own after a run that
\* threw, and both times the class doc came out exported.
C18_Witness ==
    \E r, s \in EndedRuns :
        /\ r # s
        /\ SameInput(r, s)
        /\ handed[r].from # 0 /\ handed[s].from = 0
        /\ ~Interrupted(r) /\ ~Interrupted(s)
        /\ \E f \in DocFields(r) : f.category = "ModuleClass" /\ f.export
        /\ \E t \in 1..Len(log) : log[t].kind = "throw"

\* The calls of _updateOrCreateVarDoc the turn of the loop makes: the target
\* variable, its class and the import style of the export.
VarDocCalls ==
    LET node == NodeAt(ast, TurnNode)
        declaration == declarationOf(node)
        varNode == defaultExportVarNode(ast, node)
    IN  IF exportNodeHasIgnoreTag(node) THEN {}
        ELSE IF node.type = "ExportDefaultDeclaration" /\ declaration.type = "NewExpression"
        THEN {[name |-> LowerFirst(calleeName(declaration)), class |-> calleeName(declaration),
               importStyle |-> LowerFirst(calleeName(declaration))] :
                  x \in {y \in {1} : find(docDB, "*", calleeName(declaration), filePath) # <<>>}}
        ELSE IF node.type = "ExportDefaultDeclaration" /\ varNode # 0
        THEN LET class == calleeName(initOf(declarationsOf(programBody(ast)[varNode])[1]))
             IN  {[name |-> declaration.name, class |-> class, importStyle |-> declaration.name] :
                      x \in {y \in {1} : find(docDB, "*", class, filePath) # <<>>}}
        ELSE IF node.type = "ExportNamedDeclaration" /\ declaration.type = "VariableDeclaration"
        THEN {[name |-> declarationsOf(declaration)[i].name,
               class |-> calleeName(initOf(declarationsOf(declaration)[i])),
               importStyle |-> Braces(declarationsOf(declaration)[i].name)] :
                  i \in {j \in 1..Len(declarationsOf(declaration)) :
                            /\ initOf(declarationsOf(declaration)[j]) # NoNode
                            /\ initOf(declarationsOf(declaration)[j]).type = "NewExpression"}}
        ELSE {}

\* The description synthesized from the export node of the turn.
SynthesizedDescription ==
    LET comments == NodeAt(ast, TurnNode).leadingComments
    IN  IF comments = <<>> THEN null
        ELSE FindTagValue(parseComment(comments[Len(comments)]), "@desc")

\* What the turn has done for the target t of a call of _updateOrCreateVarDoc.
VarDocReconciled(t) ==
    LET existing == find(docDB, "ModuleVariable", t.name, filePath)
        made == {i \in Inserted : docDB'[i].category = "ModuleVariable" /\ docDB'[i].name = t.name}
    IN  IF existing # <<>>
        THEN /\ made = {}
             /\ docDB'[existing[1]].description =
                    StringOf(docDB[existing[1]].description) \o <<"\n">>
                        \o StringOf(SynthesizedDescription)
             /\ docDB'[existing[1]].export
             /\ ~docDB'[existing[1]].ignore
             /\ docDB'[existing[1]].type = Longname(filePath, t.class)
             /\ docDB'[existing[1]].importStyle = t.importStyle
        ELSE /\ Cardinality(made) = 1
             /\ \A i \in made :
                    /\ docDB'[i].export
                    /\ docDB'[i].type = Longname(filePath, t.class)
                    /\ docDB'[i].importStyle = t.importStyle
                    /\ docDB'[i].filePath = filePath

\* C21: each call of _updateOrCreateVarDoc in a turn of the reconciliation
\* loop either finds a ModuleVariable doc of the target name in the file,
\* inserts nothing, appends the synthesized description to it and sets its
\* export (true), importStyle (name for a default, {name} for a named export),
\* type (<filePath>~<className>) and ignore (false); or finds none and inserts
\* exactly one synthesized variable doc with that export, importStyle and type.
C21_UpdateOrCreateVarDoc ==
    [][ReconcileTurn => \A t \in VarDocCalls : VarDocReconciled(t)]_vars

\* A finished run that updated an existing variable doc that was declared
\* @ignore, after a run that synthesized one for `export default new Foo();`.
C21_Witness ==
    /\ pc = "done"
    /\ \E i, j \in 1..Len(docDB) :
           /\ docDB[i].category = "ModuleVariable" /\ ~docDB[i].virtual
           /\ docDB[i].export /\ ~docDB[i].ignore
           /\ Len(docDB[i].description) > 1
           /\ docDB[i].importStyle = docDB[i].name
           /\ docDB[j].category = "ModuleVariable" /\ docDB[j].virtual /\ docDB[j].export
           /\ docDB[j].moduleID # docDB[i].moduleID

\* Whether the turn of the loop is on a named export with an inline variable
\* declaration that carries no @ignore.
InlineVariableTurn ==
    /\ ReconcileTurn
    /\ NodeAt(ast, TurnNode).type = "ExportNamedDeclaration"
    /\ declarationOf(NodeAt(ast, TurnNode)).type = "VariableDeclaration"
    /\ ~exportNodeHasIgnoreTag(NodeAt(ast, TurnNode))

\* What the turn has done for the declarator t: the doc object the query
\* { name: class name, filePath } finds first is exported, and the variable
\* has an exported variable doc.
InstanceReconciled(t) ==
    LET classDoc == find(docDB, "*", t.class, filePath)
    IN  /\ classDoc # <<>> =>
               /\ docDB'[classDoc[1]].export
               /\ ~docDB'[classDoc[1]].ignore
               /\ docDB'[classDoc[1]].importStyle = null
        /\ \E i \in 1..Len(docDB') :
               /\ docDB'[i].category = "ModuleVariable"
               /\ docDB'[i].name = t.name /\ docDB'[i].filePath = filePath
               /\ docDB'[i].export
               /\ docDB'[i].importStyle = Braces(t.name)
               /\ docDB'[i].type = Longname(filePath, t.class)

\* C22: the turn of the reconciliation loop on `export let x = new Foo()`
\* leaves, for each declarator whose initializer is a new expression, the doc
\* object found by { name: class name, filePath } with export = true,
\* ignore = false and importStyle = null, and a variable doc of the
\* declarator's name that is exported as {name} with the class as its type.
C22_InlineInstanceExport ==
    [][InlineVariableTurn => \A t \in VarDocCalls : InstanceReconciled(t)]_vars

\* A finished run on `export let foo = new Foo(), bar = new Foo();` whose class
\* was declared @ignore: the class doc is exported and no longer ignored, and
\* both variables have a synthesized doc.
C22_Witness ==
    /\ pc = "done"
    /\ InDocRun
    /\ \E p \in RunNodesWith({"reconcile"}) :
           /\ NodeAt(source, p).type = "ExportNamedDeclaration"
           /\ Len(declarationsOf(declarationOf(NodeAt(source, p)))) = 2
           /\ \E c \in RunDocs :
                  /\ c.category = "ModuleClass" /\ DeclaredIgnored(c)
                  /\ c.export /\ ~c.ignore /\ c.importStyle = null
           /\ \E v, w \in RunDocs :
                  /\ v.category = "ModuleVariable" /\ w.category = "ModuleVariable"
                  /\ v.name = foo /\ w.name = bar /\ v.virtual /\ w.virtual

\* The nodes of the latest run that went through _push and whose last doc
\* comment has both a @typedef and an @external tag.
BothVirtualTags ==
    {p \in RunNodesWith({"mark"}) :
        LET comments == SelectSeq(CommentsOf(p), isDocComment)
        IN  /\ comments # <<>>
            /\ HasTag(parseComment(comments[Len(comments)]), "@typedef")
            /\ HasTag(parseComment(comments[Len(comments)]), "@external")}

\* The tags of the last doc comment of the node at p, and the category that
\* goes with a virtual tag.
LastTags(p) ==
    LET comments == SelectSeq(CommentsOf(p), isDocComment)
    IN  parseComment(comments[Len(comments)])
VirtualCategory(tagName) == IF tagName = "@typedef" THEN "VirtualTypedef" ELSE "VirtualExternal"

\* Whether the one doc object made for the node at p is of the category.
OnlyDocIs(p, category) ==
    /\ \E d \in RunDocs : d.node = TargetOf(p) /\ ~d.virtual
    /\ \A d \in RunDocs : (d.node = TargetOf(p) /\ ~d.virtual) => d.category = category

\* C23 as stated: of the @typedef and @external tags of a comment the one
\* that stands last in the list decides the category.
C23_AsStated ==
    (InDocRun /\ pc = "done") =>
        \A p \in BothVirtualTags :
            LET hits == SelectSeq(LastTags(p), LAMBDA t : t.tagName \in {"@typedef", "@external"})
            IN  OnlyDocIs(p, VirtualCategory(hits[Len(hits)].tagName))

\* C23: the tag scan returns at its first hit: of the @typedef and @external
\* tags of a comment the one that stands first in the list decides the
\* category, and the shape of the node is not looked at.
C23_FirstVirtualTagDecides ==
    (InDocRun /\ pc = "done") =>
        \A p \in BothVirtualTags :
            LET hits == SelectSeq(LastTags(p), LAMBDA t : t.tagName \in {"@typedef", "@external"})
            IN  OnlyDocIs(p, VirtualCategory(hits[1].tagName))

\* A finished run on a class whose comment has @typedef before @external: its
\* doc object is a VirtualTypedef named by the @typedef tag, and no class doc.
C23_Witness ==
    /\ pc = "done"
    /\ InDocRun
    /\ \E p \in BothVirtualTags :
           /\ NodeAt(source, p).type = "ClassDeclaration"
           /\ LastTags(p)[1].tagName = "@typedef"
           /\ \E d \in RunDocs : d.node = p /\ d.category = "VirtualTypedef"
           /\ \A d \in RunDocs : d.category # "ModuleClass"

\* The doc objects the latest run has inserted on behalf of the node at p.
DocsBy(p) == DocsWithID({log[i].doc : i \in InsertsBy(p)})

\* The doc comments that stand before the node that is traversed for the node
\* at p, and those that follow it when it is the last node of a body.
LeadingOf(p) == SelectSeq(CommentsOf(p), isDocComment)
TrailingOf(p) ==
    LET node == NodeAt(source, p)
        comments == IF IsExportType(node.type)
                    THEN declarationOf(node).trailingComments \o node.trailingComments
                    ELSE node.trailingComments
    IN  IF _isLastNodeInParent(source, p) THEN SelectSeq(comments, isDocComment) ELSE <<>>

\* The comments of the node at p that are not the last leading one.
OtherComments(p) ==
    (IF LeadingOf(p) = <<>> THEN <<>> ELSE SubSeq(LeadingOf(p), 1, Len(LeadingOf(p)) - 1))
        \o TrailingOf(p)

VirtualCategories == {"VirtualTypedef", "VirtualExternal"}

\* C24: of the doc comments of a node that went through _push only the last
\* leading one is classified against the node; each other one, and each
\* trailing one, is classified against an empty virtual node: it makes a
\* VirtualTypedef or VirtualExternal doc object when it has such a tag and none
\* otherwise, and at most one doc object comes from the node itself, carrying
\* the description of the last leading comment.
C24_OnlyLastCommentOnNode ==
    InDocRun =>
        \A p \in RunNodesWith({"mark"}) :
            LET real == {d \in DocsBy(p) : ~d.virtual}
                other == {d \in DocsBy(p) : d.virtual}
            IN  /\ Cardinality(real) <= 1
                /\ \A d \in other : d.category \in VirtualCategories
                /\ Cardinality(other) <=
                       Len(SelectSeq(OtherComments(p),
                                     LAMBDA c : FirstVirtualTag(parseComment(c)) # "#none"))
                /\ \A d \in real :
                       (LeadingOf(p) # <<>> /\ d.category \in {"ModuleClass", "ModuleFunction"})
                           => d.description = FindTagValue(LastTags(p), "@desc")

\* A finished run on an exported class with a @typedef comment before its
\* description and an @external comment behind it: two virtual doc objects
\* and the class doc.
C24_Witness ==
    /\ pc = "done"
    /\ InDocRun
    /\ \E p \in RunNodesWith({"mark"}) :
           /\ Len(LeadingOf(p)) = 2
           /\ TrailingOf(p) # <<>>
           /\ \E d \in DocsBy(p) : d.virtual /\ d.category = "VirtualTypedef"
           /\ \E d \in DocsBy(p) : d.virtual /\ d.category = "VirtualExternal"
           /\ \E d \in DocsBy(p) : ~d.virtual /\ d.category = "ModuleClass"
           /\ Cardinality(DocsBy(p)) = 3

\* The places of the history where the latest run marked the node at q visited
\* in _push.
MarksOf(q) == {i \in RunIdx : log[i].kind = "mark" /\ log[i].by = q}

\* The doc objects of the latest run made of the node at q itself.
DocsOfNode(q) == {d \in RunDocs : ~d.virtual /\ d.category # "ModuleFile" /\ d.node = q}

\* The inner nodes the latest run has consumed: the node of a doc object that
\* was made while another node was being pushed, and the declaration an
\* export that went through _push wraps.
Consumed ==
    {d.node : d \in {e \in RunDocs : /\ ~e.virtual /\ e.category # "ModuleFile"
                                      /\ \E i \in RunIdx : /\ log[i].kind = "insert"
                                                            /\ log[i].doc = e.id
                                                            /\ log[i].by # e.node}}
        \cup {p \o <<1>> : p \in {r \in RunNodesWith({"mark"}) :
                                      IsExportType(NodeAt(source, r).type)}}

\* C25: within one run a node goes past the visited marker of _push at most
\* once and at most one doc object is made of it; the node of every doc object
\* carries the marker; an inner node consumed while another node was pushed
\* (the function or class expression of a top-level assignment or first
\* declarator, the `this.x = ...` expression of a statement, the declaration an
\* export wraps) never goes past the marker itself and no doc object is
\* inserted on its behalf when the walk reaches it.
C25_VisitedOnce ==
    InDocRun =>
        /\ \A q \in FileNodes : Cardinality(MarksOf(q)) <= 1 /\ Cardinality(DocsOfNode(q)) <= 1
        /\ \A q \in FileNodes : DocsOfNode(q) # {} => q \in already
        /\ \A q \in Consumed : q \in already /\ MarksOf(q) = {} /\ InsertsBy(q) = {}

\* A finished run on `export class Foo { bar() { this.baz = 1; } }`: the walk
\* has reached the class the export wraps and the assignment of the
\* statement, and each has the one doc object its wrapper made.
C25_Witness ==
    /\ pc = "done"
    /\ InDocRun
    /\ \E q \in Consumed :
           /\ \E d \in DocsOfNode(q) : d.category = "ClassMember"
           /\ \E i \in RunIdx : log[i].kind = "push" /\ log[i].by = q
    /\ \E q \in Consumed :
           /\ IsExportType(NodeAt(source, ParentPath(q)).type)
           /\ \E d \in DocsOfNode(q) : d.category = "ModuleClass"
           /\ \E i \in RunIdx : log[i].kind = "push" /\ log[i].by = q

\* C26: neither pass changes the AST the run was given: at every point of a
\* run the type, name, comments and children of every node are those of the
\* source AST, and the program body holds the nodes it was given.  (Parent
\* back-references and visited markers are kept apart from the nodes, in
\* `parent` and `already`.)
C26_AsStated == InDocRun => ast = source

\* The statements `this.<member> = ...` of the file of the latest run that the
\* walker has entered.
ThisStatements ==
    {s \in FileNodes :
        /\ NodeAt(source, s).type = "ExpressionStatement"
        /\ hasRight(NodeAt(source, s))
        /\ leftOf(expressionOf(NodeAt(source, s))).type = "MemberExpression"
        /\ leftOf(expressionOf(NodeAt(source, s))).children[1].type = "ThisExpression"
        /\ s \in RunNodesWith({"push"})}

\* C27 as the claim states it: every ClassMember doc object made of a
\* `this.<member> = ...` statement lies in a class that was classified as
\* ModuleClass in the same run.
C27_AsStated ==
    InDocRun =>
        \A s \in ThisStatements :
            HasDoc(s \o <<1>>, {"ClassMember"}) => HasDoc(EnclosingClass(s), {"ModuleClass"})

\* C27: a `this.<member> = ...` statement the walker has entered has a
\* ClassMember doc object exactly when a class declaration or class expression
\* encloses it, whether or not that class was classified as ModuleClass; the
\* doc object is made of the assignment expression and named after the member.
C27_EnclosingClassFound ==
    InDocRun =>
        \A s \in ThisStatements :
            /\ HasDoc(s \o <<1>>, {"ClassMember"}) <=> EnclosingClass(s) # RootPath
            /\ \A d \in RunDocs :
                   (d.node = s \o <<1>> /\ ~d.virtual)
                       => /\ d.category = "ClassMember"
                          /\ d.name = leftOf(expressionOf(NodeAt(source, s))).name
            /\ ~HasDoc(s, {"ClassMember"})

\* A finished run on `function foo() { let Bar = class { bar() { this.baz = 1; } }; }`:
\* the class expression is below the top level and has no doc object, and the
\* assignment has its ClassMember doc object.
C27_Witness ==
    /\ pc = "done"
    /\ InDocRun
    /\ \E s \in ThisStatements :
           /\ EnclosingClass(s) # RootPath
           /\ ~HasDoc(EnclosingClass(s), {"ModuleClass"})
           /\ HasDoc(s \o <<1>>, {"ClassMember"})

\* C28 as the claim states it: a call of resetAndTraverse that was handed
\* `log` never ends with an exception caused by the content of its file; a
\* fault in the second pass is added to the invalid-code log and the export
\* nodes behind it in the queue are still reconciled.
C28_AsStated ==
    /\ (pc = "thrown" /\ suspended = <<>>) => handed[call].handleError # "log"
    /\ (pc \in {"done", "thrown"} /\ InDocRun /\ handed[call].handleError = "log")
           => \A p \in Deferred : Count({"reconcile", "ignored"}, p) + Count({"invalid"}, p) >= 1

\* The top-level statements `export let|const|var ...` of the file of the
\* latest run that carry no @ignore and whose first declarator has an
\* initializer.
ExportedDeclarations ==
    {s \in FileNodes :
        /\ Len(s) = 2
        /\ NodeAt(source, s).type = "ExportNamedDeclaration"
        /\ declarationOf(NodeAt(source, s)).type = "VariableDeclaration"
        /\ \A i \in 1..Len(CommentsOf(s)) : ~HasTag(parseComment(CommentsOf(s)[i]), "@ignore")
        /\ initOf(declarationsOf(declarationOf(NodeAt(source, s)))[1]) # NoNode}

\* C29: when a run has returned, the DocDB holds a doc object named after the
\* first declarator of every such statement, whether the statement was
\* classified in the first pass or deferred to the second.
C29_AsStated ==
    (pc = "done" /\ InDocRun) =>
        \A s \in ExportedDeclarations :
            \E d \in RunDocs :
                d.name = declarationsOf(declarationOf(NodeAt(source, s)))[1].name

\* Whether a run of TestDocGenerator is in progress or was the latest to end.
InTestRun ==
    /\ pc \in {"test", "done", "thrown"}
    /\ RunStart # 0
    /\ \E d \in RunDocs : d.category = "ModuleTestFile"

\* The statements of the test file of that run that call a Mocha function, the
\* Test doc objects of the run, and those of every run so far.
TestStatements ==
    IF InTestRun
    THEN {s \in Range(PreOrder(source, RootPath)) : isMochaCall(NodeAt(source, s))}
    ELSE {}
TestDocs == IF InTestRun THEN {d \in RunDocs : d.category = "Test"} ELSE {}
TestDocsAt(s) == {d \in TestDocs : d.node = s \o <<1>>}
AllTestDocIdx == {i \in 1..Len(docDB) : docDB[i].category = "Test"}

\* The proper ancestors of the node at p, outermost first, that are calls of a
\* Mocha function; and those among them that are the expression of a statement.
Ancestors(p) == [i \in 1..(Len(p) - 1) |-> SubSeq(p, 1, i)]
EnclosingTestCalls(p) ==
    SelectSeq(Ancestors(p), LAMBDA q : /\ NodeAt(source, q).type = "CallExpression"
                                       /\ NodeAt(source, q).name \in MochaNames)
EnclosingTestStatements(p) ==
    SelectSeq(EnclosingTestCalls(p), LAMBDA q : isMochaCall(NodeAt(source, ParentPath(q))))

\* The tags TestDocGenerator reads for the statement at s.
TestTags(s) ==
    LET comments == NodeAt(source, s).leadingComments
    IN  IF Len(comments) > 0 THEN parseComment(comments[Len(comments)]) ELSE <<>>

\* Whether no two Test doc objects in the DocDB, of this or an earlier run,
\* have the same test id.
TestIdsDistinct ==
    \A i, j \in AllTestDocIdx : i # j => docDB[i].testId # docDB[j].testId

\* C30 as the claim states it: when a run of TestDocGenerator has returned,
\* every statement that calls describe, it, context, suite or test has exactly
\* one Test doc object; no two Test doc objects of the process share a test
\* id; and testDepth is the number of test calls that enclose the call in the
\* AST, with memberof = filePath at depth 0.
C30_AsStated ==
    /\ (pc = "done" /\ InTestRun) => \A s \in TestStatements : Cardinality(TestDocsAt(s)) = 1
    /\ TestIdsDistinct
    /\ \A d \in TestDocs :
           /\ d.testDepth = Len(EnclosingTestCalls(d.node))
           /\ d.testDepth = 0 => d.memberof = filePath

\* C30: a statement that calls describe, it, context, suite or test never has
\* more than one Test doc object, and when the run has returned it has exactly
\* one unless the doc object could not be made (a call without arguments and
\* without a description tag); no two Test doc objects of the process share a
\* test id; testDepth is the number of enclosing test calls that are
\* themselves the expression of a statement, and memberof is the file path at
\* depth 0 and otherwise the file path with the names of those calls,
\* outermost first.
C30_OneTestDocPerStatement ==
    /\ \A s \in TestStatements : Cardinality(TestDocsAt(s)) <= 1
    /\ (pc = "done" /\ InTestRun) =>
           \A s \in TestStatements :
               Cardinality(TestDocsAt(s)) = 1
                   <=> ~testDocThrows(NodeAt(source, s \o <<1>>), TestTags(s))
    /\ TestIdsDistinct
    /\ \A d \in TestDocs :
           LET outer == EnclosingTestStatements(d.node)
           IN  /\ d.testDepth = Len(outer)
               /\ d.testId = _tjsdocTestName[d.node]
               /\ IF Len(outer) = 0
                  THEN d.memberof = filePath
                  ELSE d.memberof =
                           [filePath |-> filePath,
                            chain |-> [i \in 1..Len(outer) |->
                                          TestName(NodeAt(source, outer[i]).name,
                                                   _tjsdocTestName[outer[i]])]]

\* A second test file has been gone through: its test at depth 2 lies in a
\* suite at depth 0 whose id goes on from the ids of the first file.
C30_Witness ==
    /\ pc = "done"
    /\ InTestRun
    /\ \E d \in TestDocs : d.testDepth = 2
    /\ \E d \in TestDocs : d.testDepth = 0 /\ d.testId > 0

=============================================================================
